---- MODULE Spec2Model ----
(***************************************************************************)
(* knyst_reverb: the LuffVerb feedback-delay-network reverb (src/lib.rs,   *)
(* src/luffverb.rs) and the Galactic nested-delay reverb                   *)
(* (src/galactic.rs).                                                      *)
(*                                                                         *)
(* Samples.  A Sample is an IEEE float.  The model works at the bottom of  *)
(* the float range, where floats are a fixed-point grid: the integer k     *)
(* stands for the float k * ulp (ulp the smallest subnormal).  On that     *)
(* grid addition, subtraction and negation are exact, and a product with a *)
(* gain num/den is the exact product rounded to the nearest grid point,    *)
(* ties to even (RoundHalfEven), which is what the hardware does.          *)
(* Galactic works at audio level instead: there the grid has Unity steps  *)
(* to 1.0, and what lies far below a step is carried beside the integer.   *)
(* Indices are 1-based here and 0-based in the source.                     *)
(***************************************************************************)
EXTENDS Integers, Sequences, FiniteSets, TLC

VARIABLES
    mx,     \* harness of the stateless transforms: frame size, input frame, current frame, transforms applied
    tl,     \* a Tail<CHANNELS> of lib.rs: its fields, and whether it was built, initialised or has panicked
    th,     \* the Tail's caller: the input fed and the output received so far
    df,     \* a Diffuser<CHANNELS> of lib.rs or of luffverb.rs: its fields
    dh,     \* the Diffuser's caller: the energy fed and received so far
    lv,     \* the LuffVerb of luffverb.rs: its fields, and the last process call
    ll,     \* the LuffVerb of lib.rs: its fields, and the last process call
    ga      \* the Galactic of galactic.rs: its fields, and the last process call

vars == <<mx, tl, th, df, dh, lv, ll, ga>>

\* the variables other than those of one harness
exceptMatrix   == <<tl, th, df, dh, lv, ll, ga>>
exceptTail     == <<mx, df, dh, lv, ll, ga>>
exceptDiffuser == <<mx, tl, th, lv, ll, ga>>
exceptLuffVerb == <<mx, tl, th, df, dh, ll, ga>>
exceptLib      == <<mx, tl, th, df, dh, lv, ga>>
exceptGalactic == <<mx, tl, th, df, dh, lv, ll>>

\* a harness that takes no part in a specification rests in its idle value
MatrixIdle == mx = [N |-> 0, x |-> <<>>, y |-> <<>>, op |-> "none", applied |-> 0]

TailIdleValue ==
    [ state |-> "absent", channels |-> 0, feedback_gain |-> <<0, 1>>,
      delay_buffer |-> <<>>, process_temp_buffers |-> <<>>,
      buffer_write_index |-> 0, buffer_read_index |-> 0 ]

CallerValue(mode) ==
    [ mode |-> mode, feedback |-> <<0, 1>>, block_size |-> 0,
      input |-> <<>>, output |-> <<>>, fills |-> 0, silent |-> FALSE, quiet |-> 0 ]

TailIdle == tl = TailIdleValue /\ th = CallerValue("idle")

DiffuserIdle == df = [state |-> "absent"] /\ dh = [mode |-> "idle"]

LuffVerbIdle == lv = [state |-> "absent"]

LibIdle == ll = [state |-> "absent"]

GalacticIdle == ga = [state |-> "absent"]

----------------------------------------------------------------------------
(* Arithmetic on the float grid *)

\* round n/d (d > 0) to the nearest integer, ties to even
RoundHalfEven(n, d) ==
    LET q == n \div d
        r == n % d
    IN  IF 2 * r < d THEN q
        ELSE IF 2 * r > d THEN q + 1
        ELSE IF q % 2 = 0 THEN q ELSE q + 1

\* x * (num/den) as the float product computes it
Scale(x, num, den) == RoundHalfEven(x * num, den)

\* the sequence s itself, its elements computed
Evaluated(s) == SubSeq(s, 1, Len(s))

\* F(v), with v computed once: LET x == v IN F(x)
Bind(v, F(_)) == CHOOSE y \in {F(x) : x \in {v}} : TRUE

\* the sequence s with element k set to v
Replaced(s, k, v) == Evaluated([i \in 1..Len(s) |-> IF i = k THEN v ELSE s[i]])

RECURSIVE SumSeq(_)
SumSeq(s) == IF s = <<>> THEN 0 ELSE s[1] + SumSeq(Tail(s))

\* sum of squares of a frame
Energy(frame) == SumSeq([i \in 1..Len(frame) |-> frame[i] * frame[i]])

\* usize bitwise and, as in N & (N - 1)
RECURSIVE BitAnd(_, _)
BitAnd(a, b) ==
    IF a = 0 \/ b = 0 THEN 0
    ELSE (a % 2) * (b % 2) + 2 * BitAnd(a \div 2, b \div 2)

Min(a, b) == IF a <= b THEN a ELSE b

IsPowerOfTwo(N) == \E e \in 0..10 : N = 2 ^ e

----------------------------------------------------------------------------
(* The stateless transforms *)

\* matrix::hadamard_recursive with the (a+b, a-b) butterfly dropped to (a+b, b)
RECURSIVE HadamardRecursive_NoDifference(_)
HadamardRecursive_NoDifference(frame) ==
    IF Len(frame) <= 1 THEN frame
    ELSE LET d  == Len(frame) \div 2
             fr == HadamardRecursive_NoDifference(SubSeq(frame, 1, d))
                     \o HadamardRecursive_NoDifference(SubSeq(frame, d + 1, Len(frame)))
         IN  [i \in 1..Len(frame) |->
                 IF i <= d THEN fr[i] + fr[i + d] ELSE fr[i]]

\* matrix::hadamard_recursive: transform both halves, then combine pairwise
RECURSIVE hadamard_recursive(_)
hadamard_recursive(frame) ==
    IF Len(frame) <= 1 THEN frame
    ELSE LET d == Len(frame) \div 2
         IN  Bind(hadamard_recursive(SubSeq(frame, 1, d))
                    \o hadamard_recursive(SubSeq(frame, d + 1, Len(frame))),
                  LAMBDA fr :
                    Evaluated([i \in 1..Len(fr) |->
                                 IF i <= d THEN fr[i] + fr[i + d]
                                 ELSE IF i <= 2 * d THEN fr[i - d] - fr[i]
                                 ELSE fr[i]]))

\* one pass of the while loop of hadamard(): the k x k block is copied to the
\* right and below and negated on the diagonal
HadamardDouble(matrix, k, N) ==
    [i \in 1..N |-> [j \in 1..N |->
        IF i <= k /\ j <= k THEN matrix[i][j]
        ELSE IF i <= 2 * k /\ j <= 2 * k
             THEN IF i > k /\ j > k THEN 0 - matrix[i - k][j - k]
                  ELSE matrix[IF i > k THEN i - k ELSE i][IF j > k THEN j - k ELSE j]
        ELSE matrix[i][j]]]

RECURSIVE HadamardLoop(_, _, _)
HadamardLoop(matrix, k, N) ==
    IF k < N THEN HadamardLoop(HadamardDouble(matrix, k, N), k + k, N) ELSE matrix

\* hadamard::<N>(): <<TRUE, matrix>>, or <<FALSE, _>> when the assertion fails
hadamard(N) ==
    IF BitAnd(N, N - 1) # 0 THEN <<FALSE, <<>>>>
    ELSE <<TRUE,
           HadamardLoop([i \in 1..N |-> [j \in 1..N |-> IF i = 1 /\ j = 1 THEN 1 ELSE 0]],
                        1, N)>>

\* sig2[row] += sig[column] * matrix[row][column]
MatVec(matrix, sig) ==
    [row \in 1..Len(sig) |->
        SumSeq([column \in 1..Len(sig) |-> sig[column] * matrix[row][column]])]

\* Householder::in_place with MULTIPLIER = -2/CHANNELS taken as -1/CHANNELS
in_place_HalfMultiplier(frame) ==
    LET sum == RoundHalfEven((0 - 1) * SumSeq(frame), Len(frame))
    IN  [i \in 1..Len(frame) |-> frame[i] + sum]

\* matrix::Householder::in_place: the sum is taken and scaled in f64 (exact),
\* cast back to Sample (rounded) and added to every element
in_place(frame) ==
    Bind(RoundHalfEven((0 - 2) * SumSeq(frame), Len(frame)),
         LAMBDA sum : Evaluated([i \in 1..Len(frame) |-> frame[i] + sum]))

----------------------------------------------------------------------------
(* Tail (lib.rs): one circular buffer of frames, read and written block-wise *)

\* the frame of CHANNELS zeros
ZeroFrame(channels) == [c \in 1..channels |-> 0]

\* a Rust range lo..hi of a slice of length len is in bounds
RangeOk(lo, hi, len) == 0 <= lo /\ lo <= hi /\ hi <= len

\* &s[lo..hi]
Slice(s, lo, hi) == SubSeq(s, lo + 1, hi)

\* s[lo..hi].copy_from_slice(src), the ranges being in bounds and of one length
Overwrite(s, lo, hi, src) ==
    Evaluated([i \in 1..Len(s) |-> IF lo < i /\ i <= hi THEN src[i - lo] ELSE s[i]])

\* Tail::new refusing a feedback gain of 1 or more
TailNewValue_RejectsGain(channels, delay_length_in_samples, feedback) ==
    [ state                |-> IF feedback[1] >= feedback[2] THEN "panicked" ELSE "new",
      channels             |-> channels,
      feedback_gain        |-> feedback,
      delay_buffer         |-> [i \in 1..delay_length_in_samples |-> ZeroFrame(channels)],
      process_temp_buffers |-> <<>>,
      buffer_write_index   |-> 0,
      buffer_read_index    |-> delay_length_in_samples ]

\* Tail::new
TailNewValue(channels, delay_length_in_samples, feedback) ==
    [ state                |-> "new",
      channels             |-> channels,
      feedback_gain        |-> feedback,
      delay_buffer         |-> [i \in 1..delay_length_in_samples |-> ZeroFrame(channels)],
      process_temp_buffers |-> <<>>,
      buffer_write_index   |-> 0,
      buffer_read_index    |-> delay_length_in_samples ]

\* Tail::init
TailInitValue(t, block_size) ==
    [t EXCEPT !.state = "ready",
              !.process_temp_buffers = [i \in 1..block_size |-> ZeroFrame(t.channels)]]

\* the read of process_block with the two parts of a wrapped block put in
\* the order they lie in the buffer
ReadDelay_PartsInBufferOrder(t, block_size) ==
    LET len      == Len(t.delay_buffer)
        temp     == Len(t.process_temp_buffers)
        read_end == t.buffer_read_index + block_size
    IN  IF read_end <= len
        THEN IF temp = block_size
             THEN <<TRUE, Slice(t.delay_buffer, t.buffer_read_index, read_end)>>
             ELSE <<FALSE, <<>>>>
        ELSE LET wrapped == read_end % len
                 split   == block_size - wrapped
             IN  IF /\ RangeOk(0, split, temp)
                    /\ RangeOk(t.buffer_read_index, len, len)
                    /\ split = len - t.buffer_read_index
                    /\ RangeOk(0, wrapped, len)
                    /\ temp - split = wrapped
                 THEN <<TRUE, Slice(t.delay_buffer, 0, wrapped)
                                \o Slice(t.delay_buffer, t.buffer_read_index, len)>>
                 ELSE <<FALSE, <<>>>>

\* process_block, the read: the block at the read index is copied into
\* process_temp_buffers, in two parts when it wraps around the buffer's end.
\* <<TRUE, the block read>>, or <<FALSE, _>> when a slice is out of range or
\* copy_from_slice meets two lengths
ReadDelay(t, block_size) ==
    LET len      == Len(t.delay_buffer)
        temp     == Len(t.process_temp_buffers)
        read_end == t.buffer_read_index + block_size
    IN  IF read_end <= len
        THEN IF temp = block_size
             THEN <<TRUE, Slice(t.delay_buffer, t.buffer_read_index, read_end)>>
             ELSE <<FALSE, <<>>>>
        ELSE LET wrapped == read_end % len
                 split   == block_size - wrapped
             IN  IF /\ RangeOk(0, split, temp)
                    /\ RangeOk(t.buffer_read_index, len, len)
                    /\ split = len - t.buffer_read_index
                    /\ RangeOk(0, wrapped, len)
                    /\ temp - split = wrapped
                 THEN <<TRUE, Slice(t.delay_buffer, t.buffer_read_index, len)
                                \o Slice(t.delay_buffer, 0, wrapped)>>
                 ELSE <<FALSE, <<>>>>

\* the feedback with the gain's reciprocal applied
ApplyFeedback_Reciprocal(block, gain) ==
    [f \in 1..Len(block) |->
        [c \in 1..Len(block[f]) |->
            IF gain[1] = 0 THEN block[f][c] ELSE Scale(block[f][c], gain[2], gain[1])]]

\* process_block, the feedback: channel[i] *= self.feedback_gain
ApplyFeedback(block, gain) ==
    [f \in 1..Len(block) |->
        [c \in 1..Len(block[f]) |-> Scale(block[f][c], gain[1], gain[2])]]

\* the input put in the place of the fed-back block, not added to it
AddInput_DropsFeedback(block, input) ==
    [f \in 1..Len(block) |-> IF f <= Len(input) THEN input[f] ELSE block[f]]

\* process_block, the input: process_channel[i] += input_channel[i], over the
\* zip of the two blocks
AddInput(block, input) ==
    [f \in 1..Len(block) |->
        IF f <= Len(input)
        THEN [c \in 1..Len(block[f]) |-> block[f][c] + input[f][c]]
        ELSE block[f]]

\* process_block, the write: process_temp_buffers is copied into the buffer at
\* the write index, in two parts when it wraps
WriteDelay(t, temp, block_size) ==
    LET len       == Len(t.delay_buffer)
        write_end == t.buffer_write_index + block_size
    IN  IF write_end <= len
        THEN IF Len(temp) = block_size
             THEN <<TRUE, Overwrite(t.delay_buffer, t.buffer_write_index, write_end, temp)>>
             ELSE <<FALSE, <<>>>>
        ELSE LET wrapped == write_end % len
                 split   == block_size - wrapped
             IN  IF /\ RangeOk(t.buffer_write_index, len, len)
                    /\ RangeOk(0, split, Len(temp))
                    /\ len - t.buffer_write_index = split
                    /\ RangeOk(0, wrapped, len)
                    /\ Len(temp) - split = wrapped
                 THEN <<TRUE, Overwrite(
                                Overwrite(t.delay_buffer, t.buffer_write_index, len,
                                          Slice(temp, 0, split)),
                                0, wrapped, Slice(temp, split, Len(temp)))>>
                 ELSE <<FALSE, <<>>>>

\* Tail::process_block(input, output) with output of output_len frames:
\* [ok, tail, output]; ok is FALSE when the call panics
TailProcessBlock(t, input, output_len) ==
    LET block_size == Len(input)
        len        == Len(t.delay_buffer)
        panic      == [ok |-> FALSE, tail |-> [t EXCEPT !.state = "panicked"], output |-> <<>>]
    IN  IF len < block_size THEN panic
        ELSE LET read == ReadDelay(t, block_size)
             IN  IF ~read[1] \/ output_len # Len(read[2]) THEN panic
                 ELSE LET temp  == AddInput(ApplyFeedback(read[2], t.feedback_gain), input)
                          write == WriteDelay(t, temp, block_size)
                      IN  IF ~write[1] \/ len = 0 THEN panic
                          ELSE [ok     |-> TRUE,
                                tail   |-> [t EXCEPT
                                    !.process_temp_buffers = temp,
                                    !.delay_buffer = write[2],
                                    !.buffer_read_index = (t.buffer_read_index + block_size) % len,
                                    !.buffer_write_index = (t.buffer_write_index + block_size) % len],
                                output |-> read[2]]

----------------------------------------------------------------------------
(* The delay line (knyst's StaticSampleDelay, the DelayLine of the design):  *)
(* a circular buffer as long as the delay, read and written at one cursor.   *)

\* StaticSampleDelay::new(length) is valid for a length of at least one sample
DelayValid(length) == length >= 1

\* StaticSampleDelay::new(length)
DelayNew(length) == [buffer |-> [i \in 1..length |-> 0], position |-> 0]

\* read(): the sample written `length` writes ago
DelayRead(delay) == delay.buffer[delay.position + 1]

\* write_and_advance(sample): store at the cursor and advance it, wrapping
DelayWriteAndAdvance(delay, sample) ==
    [ buffer   |-> Replaced(delay.buffer, delay.position + 1, sample),
      position |-> (delay.position + 1) % Len(delay.buffer) ]

----------------------------------------------------------------------------
(* Diffuser: CHANNELS delay lines of stratified random lengths, a polarity   *)
(* per channel, and the Hadamard mix.  lib.rs keeps frames of CHANNELS       *)
(* samples and multiplies by the matrix of hadamard(); luffverb.rs keeps one *)
(* vector per channel and calls hadamard_recursive.                          *)

DiffuserPanicked == [state |-> "panicked"]

\* a shuffle that may also change the signs it arranges
Shuffles_AnySigns(polarity) == [1..Len(polarity) -> {-1, 1}]

\* flip_polarity.shuffle(&mut rng): every arrangement of the same signs
Shuffles(polarity) ==
    { p \in [1..Len(polarity) -> {-1, 1}] :
        Cardinality({i \in 1..Len(p) : p[i] = -1})
          = Cardinality({i \in 1..Len(polarity) : polarity[i] = -1}) }

\* luffverb.rs: time_min of channel i (counted from 0)
time_min(max_delay_length_in_samples, channels, i) ==
    (max_delay_length_in_samples \div channels) * i + 1

\* lib.rs: time_min of channel i (counted from 0)
LibTimeMin(max_delay_length_in_samples, channels, i) ==
    (max_delay_length_in_samples \div channels) * i

\* a time_max that lets every channel draw up to the end of the range
time_max_WholeRange(max_delay_length_in_samples, channels, i) ==
    max_delay_length_in_samples

\* both files: time_max of channel i (counted from 0)
time_max(max_delay_length_in_samples, channels, i) ==
    (max_delay_length_in_samples \div channels) * (i + 1)

\* the lengths rng.gen_range may draw: one per channel, channel i from lo[i]..hi[i]
RECURSIVE StratifiedDraws(_, _, _)
StratifiedDraws(lo, hi, channels) ==
    IF channels = 0 THEN {<<>>}
    ELSE { Append(t, length) :
             t \in StratifiedDraws(lo, hi, channels - 1),
             length \in lo[channels]..(hi[channels] - 1) }

\* Diffuser::<channels>::new of luffverb.rs, the shuffle giving p and the draws
\* t.  rng.gen_range panics on an empty range.
DiffuserBuilt(channels, max_delay, p, t) ==
    IF \E i \in 1..channels :
          time_min(max_delay, channels, i - 1) >= time_max(max_delay, channels, i - 1)
    THEN DiffuserPanicked
    ELSE [ state         |-> "built",
           file          |-> "luffverb.rs",
           channels      |-> channels,
           flip_polarity |-> p,
           delays        |-> [i \in 1..channels |-> DelayNew(t[i])] ]

\* Diffuser::<channels>::new of lib.rs, the shuffle giving p and the draws t.
\* A drawn length of 0 is no valid delay line, and hadamard() asserts a power
\* of two.
LibDiffuserBuilt(channels, max_delay, p, t) ==
    IF \/ \E i \in 1..channels :
             LibTimeMin(max_delay, channels, i - 1) >= time_max(max_delay, channels, i - 1)
       \/ \E i \in 1..channels : ~DelayValid(t[i])
       \/ ~hadamard(channels)[1]
    THEN DiffuserPanicked
    ELSE [ state           |-> "built",
           file            |-> "lib.rs",
           channels        |-> channels,
           flip_polarity   |-> p,
           delays          |-> [i \in 1..channels |-> DelayNew(t[i])],
           hadamard_matrix |-> hadamard(channels)[2] ]

\* luffverb.rs: flip_polarity before the shuffle
Polarity(channels) == [i \in 1..channels |-> IF i - 1 >= channels \div 2 THEN 1 ELSE -1]

\* lib.rs: flip_polarity before the shuffle
LibPolarity(channels) == [i \in 1..channels |-> IF i - 1 >= channels \div 2 THEN -1 ELSE 1]

\* luffverb.rs: the bounds of the draws, per channel
Strata(channels, max_delay) ==
    << [i \in 1..channels |-> time_min(max_delay, channels, i - 1)],
       [i \in 1..channels |-> time_max(max_delay, channels, i - 1)] >>

\* lib.rs: the bounds of the draws, per channel
LibStrata(channels, max_delay) ==
    << [i \in 1..channels |-> LibTimeMin(max_delay, channels, i - 1)],
       [i \in 1..channels |-> time_max(max_delay, channels, i - 1)] >>

\* the Diffusers Diffuser::<channels>::new(max_delay) of luffverb.rs may build
DiffuserNew(channels, max_delay) ==
    LET strata == Strata(channels, max_delay)
        draws  == StratifiedDraws(strata[1], strata[2], channels)
    IN  IF draws = {} THEN {DiffuserPanicked}
        ELSE { DiffuserBuilt(channels, max_delay, p, t) :
                 p \in Shuffles(Polarity(channels)), t \in draws }

\* the Diffusers Diffuser::<channels>::new(max_delay) of lib.rs may build
LibDiffuserNew(channels, max_delay) ==
    LET strata == LibStrata(channels, max_delay)
        draws  == StratifiedDraws(strata[1], strata[2], channels)
    IN  IF draws = {} THEN {DiffuserPanicked}
        ELSE { LibDiffuserBuilt(channels, max_delay, p, t) :
                 p \in Shuffles(LibPolarity(channels)), t \in draws }

\* the delay outputs, each times its polarity
DelayedSig(d) ==
    Evaluated([channel \in 1..d.channels |->
                 DelayRead(d.delays[channel]) * d.flip_polarity[channel]])

\* the delay lines after the frame is written into them
DelaysWritten(d, in_frame) ==
    Evaluated([channel \in 1..d.channels |->
                 DelayWriteAndAdvance(d.delays[channel], in_frame[channel])])

\* one frame of process_block (luffverb.rs): <<the Diffuser after it, the frame put out>>
DiffuserFrame(d, in_frame) ==
    <<[d EXCEPT !.delays = DelaysWritten(d, in_frame)],
      Bind(DelayedSig(d), LAMBDA sig : hadamard_recursive(sig))>>

\* one frame of process_block (lib.rs)
LibDiffuserFrame(d, in_frame) ==
    <<[d EXCEPT !.delays = DelaysWritten(d, in_frame)],
      Bind(DelayedSig(d), LAMBDA sig : Evaluated(MatVec(d.hadamard_matrix, sig)))>>

\* for f in 0..block_size, frames f..block_size of a channel-major block:
\* <<the Diffuser after them, the output block>>
RECURSIVE DiffuserFrames(_, _, _, _, _)
DiffuserFrames(d, input, output, f, block_size) ==
    IF f > block_size THEN <<d, output>>
    ELSE Bind(DiffuserFrame(d, Evaluated([channel \in 1..d.channels |-> input[channel][f]])),
              LAMBDA r :
                Bind(Evaluated([channel \in 1..d.channels |->
                                  Replaced(output[channel], f, r[2][channel])]),
                     LAMBDA written :
                       DiffuserFrames(r[1], input, written, f + 1, block_size)))

\* Diffuser::process_block of luffverb.rs, input and output being one vector
\* per channel: [ok, diffuser, output]; an index past a vector's end panics
DiffuserProcessBlock(d, input, output) ==
    LET block_size == Len(input[1])
    IN  IF \E channel \in 1..d.channels :
              Len(input[channel]) < block_size \/ Len(output[channel]) < block_size
        THEN [ok |-> FALSE, diffuser |-> DiffuserPanicked, output |-> output]
        ELSE Bind(DiffuserFrames(d, input, output, 1, block_size),
                  LAMBDA r : [ok |-> TRUE, diffuser |-> r[1], output |-> r[2]])

RECURSIVE LibDiffuserFrames(_, _, _, _, _)
LibDiffuserFrames(d, input, output, f, block_size) ==
    IF f > block_size THEN <<d, output>>
    ELSE Bind(LibDiffuserFrame(d, input[f]),
              LAMBDA r :
                Bind(Replaced(output, f, r[2]),
                     LAMBDA written :
                       LibDiffuserFrames(r[1], input, written, f + 1, block_size)))

\* Diffuser::process_block of lib.rs, input and output being vectors of frames
LibDiffuserProcessBlock(d, input, output) ==
    LET block_size == Len(input)
    IN  IF Len(output) < block_size
        THEN [ok |-> FALSE, diffuser |-> DiffuserPanicked, output |-> output]
        ELSE Bind(LibDiffuserFrames(d, input, output, 1, block_size),
                  LAMBDA r : [ok |-> TRUE, diffuser |-> r[1], output |-> r[2]])

----------------------------------------------------------------------------
(* Block operations of the delay line, and knyst's OnePoleLpf.               *)

\* read_block(out): the next Len(out) samples from the cursor on, wrapping;
\* the two copies cover at most one turn of the buffer
DelayReadBlockOk(delay, n) == n <= Len(delay.buffer)

DelayReadBlock(delay, n) ==
    Evaluated([k \in 1..n |-> delay.buffer[((delay.position + k - 1) % Len(delay.buffer)) + 1]])

\* write_block_and_advance(block): store from the cursor on, wrapping, and
\* advance the cursor by the block
DelayWriteBlockAndAdvance(delay, block) ==
    LET len == Len(delay.buffer)
        n   == Len(block)
    IN  [ buffer   |-> Evaluated([i \in 1..len |->
                          LET k == ((i - 1 - delay.position) % len) + 1
                          IN  IF k <= n THEN block[k] ELSE delay.buffer[i]]),
          position |-> (delay.position + n) % len ]

\* OnePoleLpf::new(): the filter at rest
OnePoleLpfNew == [last_output |-> 0]

\* the one-pole low-pass on one sample, coeff = <<num, den>> being the
\* coefficient a the control gives: y = a*x + (1 - a)*y_prev
OnePoleLpfSample(lpf, x, coeff) ==
    Scale(x, coeff[1], coeff[2]) + Scale(lpf.last_output, coeff[2] - coeff[1], coeff[2])

\* OnePoleLpf::process(sample_rate, input, control, output): the samples the
\* three sequences have in common; <<the filter after them, output>>
RECURSIVE OnePoleLpfProcess(_, _, _, _, _)
OnePoleLpfProcess(lpf, input, control, output, k) ==
    IF k > Min(Len(input), Min(Len(control), Len(output))) THEN <<lpf, output>>
    ELSE Bind(OnePoleLpfSample(lpf, input[k], control[k]),
              LAMBDA y :
                Bind(Replaced(output, k, y),
                     LAMBDA written :
                       OnePoleLpfProcess([last_output |-> y], input, control, written, k + 1)))

----------------------------------------------------------------------------
(* Tail of luffverb.rs: CHANNELS delay lines of random lengths, the          *)
(* Householder mix, the feedback gain and a low-pass per channel.            *)

\* a block of CHANNELS vectors of block_size zeros
ZeroBlock(channels, block_size) ==
    Evaluated([channel \in 1..channels |-> Evaluated([f \in 1..block_size |-> 0])])

LuffTailPanicked == [state |-> "panicked"]

\* Tail::<channels>::new(delay_length_in_samples, feedback), t the lengths drawn
LuffTailBuilt(channels, delay_length_in_samples, feedback, t) ==
    IF \/ delay_length_in_samples \div 10 >= delay_length_in_samples
       \/ \E i \in 1..channels : ~DelayValid(t[i])
    THEN LuffTailPanicked
    ELSE [ state                 |-> "built",
           feedback_gain         |-> feedback,
           delays                |-> [i \in 1..channels |-> DelayNew(t[i])],
           lowpasses             |-> [i \in 1..channels |-> OnePoleLpfNew],
           process_temp_buffers  |-> ZeroBlock(channels, 0),
           process_temp_buffers1 |-> ZeroBlock(channels, 0) ]

\* Tail::init(block_size) of luffverb.rs
LuffTailInit(t, block_size) ==
    [t EXCEPT !.process_temp_buffers  = ZeroBlock(Len(t.delays), block_size),
              !.process_temp_buffers1 = ZeroBlock(Len(t.delays), block_size)]

\* the Householder mix of frames 1..block_size of a block of vectors
HouseholderFrames(block, block_size) ==
    Bind(Evaluated([f \in 1..block_size |->
                      Bind(Evaluated([channel \in 1..Len(block) |-> block[channel][f]]),
                           LAMBDA chan : in_place(chan))]),
         LAMBDA mixed :
           Evaluated([channel \in 1..Len(block) |->
              Evaluated([f \in 1..Len(block[channel]) |->
                 IF f <= block_size THEN mixed[f][channel] ELSE block[channel][f]])]))

\* *process_s += *input_s over the samples both have
AddZipped(process_channel, input_channel) ==
    Evaluated([f \in 1..Len(process_channel) |->
                 IF f <= Len(input_channel) THEN process_channel[f] + input_channel[f]
                 ELSE process_channel[f]])

\* process_block, the feedback: *sample *= self.feedback_gain
LuffApplyFeedback(block, gain) ==
    Evaluated([i \in 1..Len(block) |->
                 Evaluated([f \in 1..Len(block[i]) |-> Scale(block[i][f], gain[1], gain[2])])])

\* process_block, the damping: <<the low-pass after the block, the block
\* put into process_temp_buffers1>> per channel
LuffDamp(t, fed_back, damping) ==
    Evaluated([i \in 1..Len(fed_back) |->
                 OnePoleLpfProcess(t.lowpasses[i], fed_back[i], damping,
                                   t.process_temp_buffers1[i], 1)])

\* Tail::process_block of luffverb.rs: [ok, tail, output]
LuffTailProcessBlock(t, input, output, damping) ==
    LET channels   == Len(t.delays)
        block_size == Len(input[1])
        panic      == [ok |-> FALSE, tail |-> LuffTailPanicked, output |-> output]
    IN  IF \E i \in 1..channels :
              \/ ~DelayReadBlockOk(t.delays[i], Len(t.process_temp_buffers[i]))
              \/ Len(output[i]) # Len(t.process_temp_buffers[i])
              \/ block_size > Len(t.process_temp_buffers[i])
              \/ ~DelayReadBlockOk(t.delays[i], Len(t.process_temp_buffers1[i]))
        THEN panic
        ELSE
        Bind(Evaluated([i \in 1..channels |->
                          DelayReadBlock(t.delays[i], Len(t.process_temp_buffers[i]))]),
        LAMBDA read :
          Bind(LuffApplyFeedback(HouseholderFrames(read, block_size), t.feedback_gain),
          LAMBDA fed_back :
            Bind(LuffDamp(t, fed_back, damping),
            LAMBDA damped :
              Bind(Evaluated([i \in 1..channels |-> AddZipped(damped[i][2], input[i])]),
              LAMBDA summed :
                [ ok     |-> TRUE,
                  tail   |-> [t EXCEPT
                                !.delays = Evaluated([i \in 1..channels |->
                                              DelayWriteBlockAndAdvance(t.delays[i], summed[i])]),
                                !.lowpasses = Evaluated([i \in 1..channels |-> damped[i][1]]),
                                !.process_temp_buffers  = fed_back,
                                !.process_temp_buffers1 = summed],
                  output |-> read ]))))

----------------------------------------------------------------------------
(* LuffVerb of luffverb.rs: the input low-pass, DIFFUSERS Diffusers in a     *)
(* row over two working buffers used as input and output in turn, and the    *)
(* Tail.                                                                     *)

CHANNELS == 8

DIFFUSERS == 4

LuffVerbPanicked == [state |-> "panicked"]

\* LuffVerb::new(tail_delay, feedback) of a build whose DIFFUSERS is stages:
\* ps[i] and ts[i] the shuffle and the lengths drawn by Diffuser i, tt the
\* lengths drawn by the Tail
LuffVerbBuiltOf(stages, tail_delay, feedback, ps, ts, tt) ==
    LET diffusers == [i \in 1..stages |->
                        DiffuserBuilt(CHANNELS, tail_delay \div (stages * 2), ps[i], ts[i])]
        tail      == LuffTailBuilt(CHANNELS, tail_delay, feedback, tt)
    IN  IF \/ \E i \in 1..stages : diffusers[i].state = "panicked"
           \/ tail.state = "panicked"
        THEN LuffVerbPanicked
        ELSE [ state     |-> "built",
               diffusers |-> diffusers,
               tail      |-> tail,
               input_lpf |-> OnePoleLpfNew,
               buffer0   |-> ZeroBlock(CHANNELS, 0),
               buffer1   |-> ZeroBlock(CHANNELS, 0) ]

\* LuffVerb::new(tail_delay, feedback)
LuffVerbBuilt(tail_delay, feedback, ps, ts, tt) ==
    LuffVerbBuiltOf(DIFFUSERS, tail_delay, feedback, ps, ts, tt)

\* LuffVerb::init(block_size); Diffuser::init does nothing
LuffVerbInitValue(e, block_size) ==
    [e EXCEPT !.buffer0 = ZeroBlock(CHANNELS, block_size),
              !.buffer1 = ZeroBlock(CHANNELS, block_size),
              !.tail    = LuffTailInit(e.tail, block_size)]

\* what a call did not get to
NoWiring == [stages |-> <<>>]

swap_LeavesInPlace(in_buf, out_buf) == <<in_buf, out_buf>>

\* std::mem::swap(&mut in_buf, &mut out_buf) on the two references: the pair
\* <<in_buf, out_buf>> after it
swap(in_buf, out_buf) == <<out_buf, in_buf>>

\* for diffuser in diffusers: process_block(in_buf, out_buf), then swap the
\* two references.  bufs holds buffer0 and buffer1, in_buf and out_buf name them.
\* stages notes, per Diffuser, the buffer it was handed as input with the
\* block it held and the buffer it was handed as output with the block it left.
RECURSIVE DiffuserChain(_, _, _, _, _)
DiffuserChain(diffusers, bufs, in_buf, out_buf, i) ==
    IF i > Len(diffusers)
    THEN [ok |-> TRUE, diffusers |-> diffusers, bufs |-> bufs,
          in_buf |-> in_buf, out_buf |-> out_buf, stages |-> <<>>]
    ELSE Bind(DiffuserProcessBlock(diffusers[i], bufs[in_buf], bufs[out_buf]),
              LAMBDA r :
                IF ~r.ok
                THEN [ok |-> FALSE, diffusers |-> diffusers, bufs |-> bufs,
                      in_buf |-> in_buf, out_buf |-> out_buf, stages |-> <<>>]
                ELSE Bind(<<Replaced(diffusers, i, r.diffuser),
                            [bufs EXCEPT ![out_buf] = r.output]>>,
                          LAMBDA done :
                            Bind(DiffuserChain(done[1], done[2], swap(in_buf, out_buf)[1],
                                               swap(in_buf, out_buf)[2], i + 1),
                                 LAMBDA rest :
                                   [rest EXCEPT !.stages =
                                      <<[read |-> in_buf, input |-> bufs[in_buf],
                                         wrote |-> out_buf, output |-> r.output]>> \o @])))

\* the sum over the channels of frame f of a block
SumChannels(block, f) == SumSeq([channel \in 1..Len(block) |-> block[channel][f]])

\* output.fill(0.0); out_sample += each channel[f]; out_sample *= early_reflections_amount
EarlyReflections(output, out_buf) ==
    Evaluated([f \in 1..Len(output) |-> Scale(0 + SumChannels(out_buf, f), 1, 2)])

\* out_sample += each channel[f]; out_sample *= compensation_amp, the array of
\* Diffusers having DIFFUSERS elements
TailMix(output, out_buf, diffusers) ==
    Evaluated([f \in 1..Len(output) |->
                 Scale(output[f] + SumChannels(out_buf, f), 1, CHANNELS * Len(diffusers))])

\* LuffVerb::process, from the Diffusers on: e the engine, filtered the input
\* low-pass and the block it put out
LuffVerbStages(e, filtered, damping) ==
    LET panic == [ok |-> FALSE, engine |-> LuffVerbPanicked, output |-> filtered[2],
                  ret |-> "panic", diffused |-> <<>>, tail_out |-> <<>>,
                  wiring |-> NoWiring]
    IN  Bind(DiffuserChain(e.diffusers,
                           [buffer0 |-> Evaluated([channel \in 1..CHANNELS |-> filtered[2]]),
                            buffer1 |-> e.buffer1],
                           "buffer0", "buffer1", 1),
        LAMBDA chain :
          IF ~chain.ok THEN panic
          ELSE
          LET \* std::mem::swap(&mut in_buf, &mut out_buf)
              in_early  == swap(chain.in_buf, chain.out_buf)[1]
              out_early == swap(chain.in_buf, chain.out_buf)[2]
              \* std::mem::swap(&mut in_buf, &mut out_buf)
              in_tail   == swap(in_early, out_early)[1]
              out_tail  == swap(in_early, out_early)[2]
          IN  Bind(<<EarlyReflections(filtered[2], chain.bufs[out_early]),
                     LuffTailProcessBlock(e.tail, chain.bufs[in_tail],
                                          chain.bufs[out_tail], damping)>>,
              LAMBDA mixed :
                IF ~mixed[2].ok THEN panic
                ELSE [ ok       |-> TRUE,
                       engine   |-> [e EXCEPT
                                       !.input_lpf = filtered[1],
                                       !.diffusers = chain.diffusers,
                                       !.tail      = mixed[2].tail,
                                       !.buffer0   = IF out_tail = "buffer0"
                                                     THEN mixed[2].output
                                                     ELSE chain.bufs.buffer0,
                                       !.buffer1   = IF out_tail = "buffer1"
                                                     THEN mixed[2].output
                                                     ELSE chain.bufs.buffer1],
                       output   |-> TailMix(mixed[1], mixed[2].output, e.diffusers),
                       ret      |-> "Continue",
                       diffused |-> chain.bufs[out_early],
                       tail_out |-> mixed[2].output,
                       wiring   |-> [ stages   |-> chain.stages,
                                      filtered |-> filtered[2],
                                      early    |-> [buf |-> out_early,
                                                    block |-> chain.bufs[out_early]],
                                      tail_in  |-> [buf |-> in_tail,
                                                    block |-> chain.bufs[in_tail]],
                                      tail_out |-> [buf |-> out_tail,
                                                    block |-> mixed[2].output] ] ]))

\* LuffVerb::process(input, output, lowpass, damping, sample_rate):
\* [ok, engine, output, ret, diffused, tail_out, wiring], diffused and tail_out
\* being the blocks the last Diffuser and the Tail put out, wiring the buffers
\* each step was handed
LuffVerbProcess(e, input, output, lowpass, damping) ==
    Bind(OnePoleLpfProcess(e.input_lpf, input, lowpass, output, 1),
         LAMBDA filtered :
           IF \E channel \in 1..CHANNELS : Len(e.buffer0[channel]) # Len(filtered[2])
           THEN [ok |-> FALSE, engine |-> LuffVerbPanicked, output |-> filtered[2],
                 ret |-> "panic", diffused |-> <<>>, tail_out |-> <<>>,
                 wiring |-> NoWiring]
           ELSE LuffVerbStages(e, filtered, damping))

----------------------------------------------------------------------------
(* LuffVerb of lib.rs: LIB_DIFFUSERS Diffusers in a row over two buffers of  *)
(* frames whose contents are swapped after each, and the Tail.               *)

\* DIFFUSERS of lib.rs
LIB_DIFFUSERS == 6

\* the feedback of 0.7 LuffVerb::new hands to Tail::new
LibFeedback == <<7, 10>>

LibLuffVerbPanicked == [state |-> "panicked"]

\* LuffVerb::new(tail_delay) of lib.rs: ps[i] and ts[i] the shuffle and the
\* lengths drawn by Diffuser i
LibLuffVerbBuilt(tail_delay, ps, ts) ==
    LET diffusers == [i \in 1..LIB_DIFFUSERS |->
                        LibDiffuserBuilt(CHANNELS, tail_delay \div LIB_DIFFUSERS, ps[i], ts[i])]
    IN  IF \E i \in 1..LIB_DIFFUSERS : diffusers[i].state = "panicked"
        THEN LibLuffVerbPanicked
        ELSE [ state     |-> "built",
               diffusers |-> diffusers,
               tail      |-> TailNewValue(CHANNELS, tail_delay, LibFeedback),
               buffer0   |-> <<>>,
               buffer1   |-> <<>> ]

\* vec![[0.0; CHANNELS]; block_size]
ZeroFrames(channels, block_size) ==
    Evaluated([f \in 1..block_size |-> Evaluated(ZeroFrame(channels))])

\* LuffVerb::init(block_size) of lib.rs: buffer0 and buffer1, nothing else
LibLuffVerbInitValue(e, block_size) ==
    [e EXCEPT !.buffer0 = ZeroFrames(CHANNELS, block_size),
              !.buffer1 = ZeroFrames(CHANNELS, block_size)]

\* for (&in_sample, channel) in input.iter().zip(in_buf.iter_mut()): channel.fill(in_sample)
FillFrames(in_buf, input) ==
    Evaluated([f \in 1..Len(in_buf) |->
                 IF f <= Len(input) THEN Evaluated([c \in 1..CHANNELS |-> input[f]])
                 ELSE in_buf[f]])

\* for diffuser in diffusers: process_block(&in_buf, &mut out_buf), then swap
\* the contents of the two buffers
RECURSIVE LibDiffuserChain(_, _, _, _)
LibDiffuserChain(diffusers, in_buf, out_buf, i) ==
    IF i > Len(diffusers)
    THEN [ok |-> TRUE, diffusers |-> diffusers, in_buf |-> in_buf, out_buf |-> out_buf,
          stages |-> <<>>]
    ELSE Bind(LibDiffuserProcessBlock(diffusers[i], in_buf, out_buf),
              LAMBDA r :
                IF ~r.ok
                THEN [ok |-> FALSE, diffusers |-> diffusers,
                      in_buf |-> in_buf, out_buf |-> out_buf, stages |-> <<>>]
                ELSE Bind(Replaced(diffusers, i, r.diffuser),
                          LAMBDA done :
                            Bind(LibDiffuserChain(done, r.output, in_buf, i + 1),
                                 LAMBDA rest :
                                   [rest EXCEPT !.stages =
                                      <<[read |-> "buffer0", input |-> in_buf,
                                         wrote |-> "buffer1", output |-> r.output]>> \o @])))

\* for (out_sample, out_channel) in output.iter_mut().zip(out_buf):
\* *out_sample = out_channel.iter().sum()
SumFrames(output, out_buf) ==
    Evaluated([f \in 1..Len(output) |->
                 IF f <= Len(out_buf) THEN SumSeq(out_buf[f]) ELSE output[f]])

\* LuffVerb::process(input, output) of lib.rs: [ok, engine, output, ret, wiring]
LibLuffVerbProcess(e, input, output) ==
    LET panic == [ok |-> FALSE, engine |-> LibLuffVerbPanicked, output |-> output,
                  ret |-> "panic", wiring |-> NoWiring]
    IN  Bind(LibDiffuserChain(e.diffusers, FillFrames(e.buffer0, input), e.buffer1, 1),
        LAMBDA chain :
          IF ~chain.ok THEN panic
          ELSE Bind(TailProcessBlock(e.tail, chain.in_buf, Len(chain.out_buf)),
               LAMBDA tail :
                 IF ~tail.ok
                 THEN [panic EXCEPT !.wiring =
                         [ stages   |-> chain.stages,
                           tail_in  |-> [buf |-> "buffer0", block |-> chain.in_buf],
                           tail_out |-> [buf |-> "buffer1"] ]]
                 ELSE [ ok     |-> TRUE,
                        engine |-> [e EXCEPT !.diffusers = chain.diffusers,
                                             !.tail      = tail.tail,
                                             !.buffer0   = chain.in_buf,
                                             !.buffer1   = tail.output],
                        output |-> SumFrames(output, tail.output),
                        ret    |-> "Continue",
                        wiring |-> [ stages   |-> chain.stages,
                                     tail_in  |-> [buf |-> "buffer0",
                                                   block |-> chain.in_buf],
                                     tail_out |-> [buf |-> "buffer1"] ] ]))

----------------------------------------------------------------------------
(* The LuffVerb's host (luffverb.rs): builds the engine, initialises it to a *)
(* block size and calls process, block after block.                          *)

\* tail_delay of the engines built
TailDelays == {0, 64, 128}

\* feedback of the engines built
EngineGains == {<<1, 2>>, <<1, 1>>}

\* block sizes the host initialises to
EngineBlockSizes == {0, 2, 4}

\* the samples a block fed holds: silence, or one loud value
EngineSamples == {0, 64}

\* the coefficients the lowpass and damping controls give
LpfCoefficients == {<<1, 1>>, <<1, 2>>}

\* init calls and process calls of one run
MaxInits == 2

MaxCalls == 5

\* The random choices followed are two: "low", where the shuffle leaves
\* flip_polarity as built and every draw is the bottom of its range, and
\* "spread", where the shuffle reverses it and channel i draws i samples above
\* the bottom of its range (as far as the range goes).
Arrangements == {"low", "spread"}

EngineShuffle(polarity, a) ==
    IF a = "low" THEN polarity
    ELSE [i \in 1..Len(polarity) |-> polarity[Len(polarity) + 1 - i]]

EngineDraw(lo, hi, channels, a) ==
    [i \in 1..channels |-> IF a = "low" THEN lo[i] ELSE Min(lo[i] + i, hi[i] - 1)]

\* the engines LuffVerb::new(tail_delay, feedback) may build where DIFFUSERS is
\* stages, along the random choices followed
LuffVerbNewOf(stages, tail_delay, feedback) ==
    LET strata == Strata(CHANNELS, tail_delay \div (stages * 2))
        lo     == [i \in 1..CHANNELS |-> tail_delay \div 10]
        hi     == [i \in 1..CHANNELS |-> tail_delay]
    IN  IF \/ \E i \in 1..CHANNELS : strata[1][i] >= strata[2][i]
           \/ tail_delay \div 10 >= tail_delay
        THEN {LuffVerbPanicked}
        ELSE { LuffVerbBuiltOf(stages, tail_delay, feedback,
                               [i \in 1..stages |-> EngineShuffle(Polarity(CHANNELS), a)],
                               [i \in 1..stages |->
                                  EngineDraw(strata[1], strata[2], CHANNELS, a)],
                               EngineDraw(lo, hi, CHANNELS, a)) :
                 a \in Arrangements }

\* the engines LuffVerb::new(tail_delay, feedback) may build
LuffVerbNew(tail_delay, feedback) == LuffVerbNewOf(DIFFUSERS, tail_delay, feedback)

NoCall == [ret |-> "none", input |-> <<>>, output |-> <<>>, lowpass |-> 0, damping |-> 0,
           diffused |-> <<>>, tail_out |-> <<>>, wiring |-> NoWiring]

\* the host before it has built its engine
LuffHost ==
    [engine |-> [state |-> "absent"], initialised |-> FALSE, block_size |-> 0,
     inits |-> 0, calls |-> 0, coeff |-> <<1, 1>>, mismatched |-> FALSE, last |-> NoCall]

LuffVerbInit ==
    /\ lv = LuffHost
    /\ MatrixIdle /\ TailIdle /\ DiffuserIdle /\ LibIdle /\ GalacticIdle

\* LuffVerb::new(tail_delay, feedback); the host settles the coefficient its
\* lowpass and damping controls will give
LuffNew ==
    /\ lv.engine.state = "absent"
    /\ \E tail_delay \in TailDelays, feedback \in EngineGains, coeff \in LpfCoefficients :
         \E e \in LuffVerbNew(tail_delay, feedback) :
            lv' = [lv EXCEPT !.engine = e, !.coeff = coeff]
    /\ UNCHANGED exceptLuffVerb

\* LuffVerb::init(block_size)
LuffInit ==
    /\ lv.engine.state = "built"
    /\ ~lv.mismatched
    /\ lv.inits < MaxInits
    /\ \E block_size \in EngineBlockSizes :
         /\ block_size # lv.block_size \/ ~lv.initialised
         /\ lv' = [lv EXCEPT !.engine = LuffVerbInitValue(lv.engine, block_size),
                             !.initialised = TRUE,
                             !.block_size = block_size,
                             !.inits = @ + 1]
    /\ UNCHANGED exceptLuffVerb

\* a slice of n samples v
RECURSIVE Repeat(_, _)
Repeat(v, n) == IF n <= 0 THEN <<>> ELSE Append(Repeat(v, n - 1), v)

\* one call of process by the host: the engine and the record of the call
LuffCall(input, output_len, lowpass, damping) ==
    Bind(LuffVerbProcess(lv.engine, input, Repeat(0, output_len), lowpass, damping),
         LAMBDA r :
           [lv EXCEPT !.engine = r.engine,
                      !.calls = @ + 1,
                      !.last = [ret |-> r.ret, input |-> input, output |-> r.output,
                                lowpass |-> Len(lowpass), damping |-> Len(damping),
                                diffused |-> r.diffused, tail_out |-> r.tail_out,
                                wiring |-> r.wiring]])

\* process on slices that all have the block size the engine holds: a loud
\* or a silent block first, silent blocks after it
LuffProcess ==
    /\ lv.engine.state = "built"
    /\ ~lv.mismatched
    /\ lv.calls < MaxCalls
    /\ \E v \in EngineSamples :
         /\ v # 0 => lv.calls = 0
         /\ lv' = LuffCall(Repeat(v, lv.block_size), lv.block_size,
                           Repeat(lv.coeff, lv.block_size), Repeat(lv.coeff, lv.block_size))
    /\ UNCHANGED exceptLuffVerb

\* process with one of the four slices a sample shorter or longer than the
\* block size, as the host's only call
LuffProcessMismatched ==
    /\ lv.engine.state = "built"
    /\ ~lv.mismatched
    /\ lv.calls = 0
    /\ \E which \in {"input", "output", "lowpass", "damping"}, delta \in {-1, 1} :
         LET len(slice) == IF slice = which THEN lv.block_size + delta ELSE lv.block_size
         IN  /\ lv.block_size + delta >= 0
             /\ lv' = [LuffCall(Repeat(64, len("input")), len("output"),
                                Repeat(lv.coeff, len("lowpass")),
                                Repeat(lv.coeff, len("damping")))
                         EXCEPT !.mismatched = TRUE]
    /\ UNCHANGED exceptLuffVerb

LuffVerbNext == LuffNew \/ LuffInit \/ LuffProcess \/ LuffProcessMismatched

SpecLuffVerb == LuffVerbInit /\ [][LuffVerbNext]_vars

----------------------------------------------------------------------------
(* The host of the LuffVerb of lib.rs.                                       *)

\* tail_delay of the engines built
LibTailDelays == {0, 64, 128, 192}

\* the engines LuffVerb::new(tail_delay) of lib.rs may build, along the random
\* choices followed
LibLuffVerbNew(tail_delay) ==
    LET strata == LibStrata(CHANNELS, tail_delay \div LIB_DIFFUSERS)
    IN  IF \E i \in 1..CHANNELS : strata[1][i] >= strata[2][i]
        THEN {LibLuffVerbPanicked}
        ELSE { LibLuffVerbBuilt(tail_delay,
                                [i \in 1..LIB_DIFFUSERS |->
                                   EngineShuffle(LibPolarity(CHANNELS), a)],
                                [i \in 1..LIB_DIFFUSERS |->
                                   EngineDraw(strata[1], strata[2], CHANNELS, a)]) :
                 a \in Arrangements }

\* the host before it has built its engine
LibHost ==
    [engine |-> [state |-> "absent"], initialised |-> FALSE, block_size |-> 0,
     inits |-> 0, calls |-> 0, mismatched |-> FALSE,
     last |-> [ret |-> "none", input |-> <<>>, output |-> <<>>, wiring |-> NoWiring]]

LibInit ==
    /\ ll = LibHost
    /\ MatrixIdle /\ TailIdle /\ DiffuserIdle /\ LuffVerbIdle /\ GalacticIdle

\* LuffVerb::new(tail_delay)
LibNew ==
    /\ ll.engine.state = "absent"
    /\ \E tail_delay \in LibTailDelays :
         \E e \in LibLuffVerbNew(tail_delay) : ll' = [ll EXCEPT !.engine = e]
    /\ UNCHANGED exceptLib

\* LuffVerb::init(block_size)
LibEngineInit ==
    /\ ll.engine.state = "built"
    /\ ~ll.mismatched
    /\ ll.inits < MaxInits
    /\ \E block_size \in EngineBlockSizes :
         /\ block_size # ll.block_size \/ ~ll.initialised
         /\ ll' = [ll EXCEPT !.engine = LibLuffVerbInitValue(ll.engine, block_size),
                             !.initialised = TRUE,
                             !.block_size = block_size,
                             !.inits = @ + 1]
    /\ UNCHANGED exceptLib

\* one call of process by the host
LibCall(input, output_len) ==
    Bind(LibLuffVerbProcess(ll.engine, input, Repeat(0, output_len)),
         LAMBDA r :
           [ll EXCEPT !.engine = r.engine,
                      !.calls = @ + 1,
                      !.last = [ret |-> r.ret, input |-> input, output |-> r.output,
                                wiring |-> r.wiring]])

\* process on an input and an output of the block size the engine holds
LibProcess ==
    /\ ll.engine.state = "built"
    /\ ~ll.mismatched
    /\ ll.calls < MaxCalls
    /\ \E v \in EngineSamples :
         /\ v # 0 => ll.calls = 0
         /\ ll' = LibCall(Repeat(v, ll.block_size), ll.block_size)
    /\ UNCHANGED exceptLib

\* process with the input or the output a sample shorter or longer than the
\* block size, as the host's only call
LibProcessMismatched ==
    /\ ll.engine.state = "built"
    /\ ~ll.mismatched
    /\ ll.calls = 0
    /\ \E which \in {"input", "output"}, delta \in {-1, 1} :
         LET len(slice) == IF slice = which THEN ll.block_size + delta ELSE ll.block_size
         IN  /\ ll.block_size + delta >= 0
             /\ ll' = [LibCall(Repeat(64, len("input")), len("output"))
                         EXCEPT !.mismatched = TRUE]
    /\ UNCHANGED exceptLib

LibNext == LibNew \/ LibEngineInit \/ LibProcess \/ LibProcessMismatched

SpecLib == LibInit /\ [][LibNext]_vars

----------------------------------------------------------------------------
(* Galactic of galactic.rs: per channel a 256-sample pre-delay read at a     *)
(* modulated offset, a low-pass, three blocks of four delay lines mixed by   *)
(* differences, feedback from the last block into the other channel's first, *)
(* a second low-pass, the wet/dry cross-fade and the dither.                 *)
(*                                                                           *)
(* A Sample is an integer number of grid steps, Unity of them making 1.0.    *)
(* Two kinds of value lie far below one grid step and are carried exactly    *)
(* beside it: the substitute for a faint input, fpd * 1.18e-17, and the      *)
(* dither, (fpd - 0x7fffffff) * 5.5e-36 * 2^(exp + 62).  A u32 is a pair     *)
(* <<high 16 bits, low 16 bits>>.  A control is a fraction <<num, den>>.     *)

GALACTIC_DELAY_TIMES == <<6480, 3660, 1720, 680, 9700, 6000, 2320, 940, 15220, 8460, 4540, 3200>>

\* the length of the two detune delays
DETUNE_LENGTH == 256

\* the sample value 1.0 in grid steps
Unity == 64

GalacticMax(a, b) == IF a >= b THEN a ELSE b

Abs(x) == IF x < 0 THEN 0 - x ELSE x

\* u32 ^
RECURSIVE BitXor(_, _)
BitXor(a, b) ==
    IF a = 0 THEN b
    ELSE IF b = 0 THEN a
    ELSE (((a % 2) + (b % 2)) % 2) + (2 * BitXor(a \div 2, b \div 2))

Xor32(x, y) == <<BitXor(x[1], y[1]), BitXor(x[2], y[2])>>

\* u32 << n for n below 16, the bits shifted out dropped
Shl32(x, n) ==
    << ((x[1] % (2 ^ (16 - n))) * (2 ^ n)) + (x[2] \div (2 ^ (16 - n))),
       (x[2] % (2 ^ (16 - n))) * (2 ^ n) >>

\* u32 >> n for n from 16 on
Shr32(x, n) == <<0, x[1] \div (2 ^ (n - 16))>>

\* fpd ^= fpd << 13; fpd ^= fpd >> 17; fpd ^= fpd << 5
xorshift(fpd) ==
    Bind(Xor32(fpd, Shl32(fpd, 13)),
         LAMBDA a : Bind(Xor32(a, Shr32(a, 17)),
                         LAMBDA b : Xor32(b, Shl32(b, 5))))

\* frexp(s).1: floor(log2 |s|) + 1 cast to u32, the cast taking what is below
\* zero to zero; 0 for s = 0
RECURSIVE frexp(_, _)
frexp(s, exp) == IF Abs(s) < Unity * (2 ^ exp) THEN exp ELSE frexp(s, exp + 1)

\* StaticSampleDelay::new(length) of a line whose delay can be shortened
LineNew(length) ==
    [buffer |-> Evaluated([i \in 1..length |-> 0]), position |-> 0, delay_length |-> length]

\* set_delay_length_fraction(fraction): the delay is the fraction of the
\* buffer's length, at least one sample
set_delay_length_fraction(delay, fraction) ==
    [delay EXCEPT !.delay_length =
        GalacticMax(1, (Len(delay.buffer) * fraction[1]) \div fraction[2])]

\* write_and_advance(sample)
LineWriteAndAdvance(delay, sample) ==
    [ buffer       |-> Replaced(delay.buffer, delay.position + 1, sample),
      position     |-> (delay.position + 1) % Len(delay.buffer),
      delay_length |-> delay.delay_length ]

\* read(): the sample at the write cursor minus the delay, wrapped
LineRead(delay) ==
    delay.buffer[(((delay.position + Len(delay.buffer)) - delay.delay_length)
                    % Len(delay.buffer)) + 1]

\* read_at_lin(index), index = whole + frac/10000: between the samples at
\* whole and whole + 1, both wrapped
read_at_lin(delay, whole, frac) ==
    Scale(delay.buffer[(whole % Len(delay.buffer)) + 1], 10000 - frac, 10000)
      + Scale(delay.buffer[((whole + 1) % Len(delay.buffer)) + 1], frac, 10000)

\* i - (j + k + l), for each of the four lines of a block in turn
DiffMix(block) ==
    [i \in 1..4 |-> block[i] - ((block[(i % 4) + 1] + block[((i + 1) % 4) + 1])
                                  + block[((i + 2) % 4) + 1])]

\* Galactic::new(): fpdL and fpdR as the generator drew them
GalacticBuilt(fpdL, fpdR) ==
    [ state             |-> "built",
      delays_left       |-> Evaluated([i \in 1..12 |-> LineNew(1)]),
      delays_right      |-> Evaluated([i \in 1..12 |-> LineNew(1)]),
      feedback          |-> <<ZeroFrame(4), ZeroFrame(4)>>,
      detune_delay_left |-> LineNew(1),
      detune_delay_right |-> LineNew(1),
      fpdL |-> fpdL, fpdR |-> fpdR,
      iirAL |-> 0, iirAR |-> 0, iirBL |-> 0, iirBR |-> 0 ]

GalacticPanicked == [state |-> "panicked"]

\* (time as Sample / 44100.) * sample_rate as usize
GalacticDelayLength(time, sample_rate) == (time * sample_rate) \div 44100

\* Galactic::init(sample_rate); a line of no samples is no StaticSampleDelay
GalacticInitValue(g, sample_rate) ==
    IF \E i \in 1..12 : ~DelayValid(GalacticDelayLength(GALACTIC_DELAY_TIMES[i], sample_rate))
    THEN GalacticPanicked
    ELSE LET lines == Evaluated([i \in 1..12 |->
                        LineNew(GalacticDelayLength(GALACTIC_DELAY_TIMES[i], sample_rate))])
         IN  [g EXCEPT !.delays_left = lines,
                       !.delays_right = lines,
                       !.detune_delay_left = LineNew(DETUNE_LENGTH),
                       !.detune_delay_right = LineNew(DETUNE_LENGTH)]

\* the integer square root
ISqrt(n) == CHOOSE r \in 0..n : r * r <= n /\ (r + 1) * (r + 1) > n

\* what process derives from its controls before the samples: fractions, the
\* low-pass coefficient to four decimals.  brightness is at most 2/5 here, and
\* detune is 0, so that drift is 0 and vibM stays at the 3.0 of new().
GalacticControls(size, replace, brightness, detune, mix, sample_rate) ==
    [ regen     |-> <<(2 * replace[2]) - replace[1], 16 * replace[2]>>,
      attenuate |-> <<1333 * replace[1], 2000 * replace[2]>>,
      lowpass   |-> <<RoundHalfEven(
                        ((((((100000 * brightness[1]) \div brightness[2]) + 1) ^ 2) \div 10000)
                          * ISqrt(441000000 \div sample_rate)), 10000), 10000>>,
      drift     |-> <<detune[1] ^ 3, 1000 * (detune[2] ^ 3)>>,
      size      |-> <<(9 * size[1]) + size[2], 10 * size[2]>>,
      wet       |-> <<(mix[2] ^ 3) - ((mix[2] - mix[1]) ^ 3), mix[2] ^ 3>> ]

\* (sin(vibM) + 1) * 127 and (sin(vibM + pi/2) + 1) * 127 at vibM = 3.0, as
\* <<whole, ten-thousandths>>
offsetML == <<144, 9222>>

offsetMR == <<1, 2710>>

\* the input sample, or fpd * 1.18e-17 where the input is below 1.18e-23 in
\* magnitude: [v, tiny], tiny = <<fpd high, fpd low, 1, 1>> for the substitute
DrySample(input_sample, fpd) ==
    IF input_sample = 0 THEN [v |-> 0, tiny |-> <<fpd[1], fpd[2], 1, 1>>]
    ELSE [v |-> input_sample, tiny |-> <<>>]

\* iir = iir * (1 - lowpass) + x * lowpass
GalacticLowpass(iir, x, lowpass) ==
    Scale(iir, lowpass[2] - lowpass[1], lowpass[2]) + Scale(x, lowpass[1], lowpass[2])

\* write_and_advance on the detune delay, read_at_lin at position + offset,
\* and the first low-pass: <<the delay, iirA>>
GalacticPre(delay, iir, dry, offset, c) ==
    Bind(LineWriteAndAdvance(delay, Scale(dry.v, c.attenuate[1], c.attenuate[2])),
         LAMBDA written :
           <<written,
             GalacticLowpass(iir, read_at_lin(written, written.position + offset[1],
                                              offset[2]), c.lowpass)>>)

\* four lines of the twelve written with the four values, then read:
\* <<the twelve lines, the four samples read>>
BlockPass(delays, base, values) ==
    Bind(Evaluated([k \in 1..12 |->
                      IF k > base /\ k <= base + 4
                      THEN LineWriteAndAdvance(delays[k], values[k - base])
                      ELSE delays[k]]),
         LAMBDA written :
           <<written, Evaluated([i \in 1..4 |-> LineRead(written[base + i])])>>)

\* blocks 0, 1 and 2 of one channel: [delays, block_2]
GalacticBlocks(delays, injected) ==
    Bind(BlockPass(delays, 0, injected),
    LAMBDA b0 : Bind(BlockPass(b0[1], 4, DiffMix(b0[2])),
    LAMBDA b1 : Bind(BlockPass(b1[1], 8, DiffMix(b1[2])),
    LAMBDA b2 : [delays |-> b2[1], block_2 |-> Evaluated(b2[2])])))

InjectedFeedback_OwnChannel(feedback, channel) ==
    IF channel = "left" THEN feedback[1] ELSE feedback[2]

\* the row of feedback written into block 0 of a channel: feedback[1] into the
\* left, feedback[0] into the right
InjectedFeedback(feedback, channel) ==
    IF channel = "left" THEN feedback[2] ELSE feedback[1]

\* (feedback[..][i] * regen) + input_sample, for i in 0..4
Block0Input(feedback, channel, input_sample, c) ==
    Evaluated([i \in 1..4 |->
                 Scale(InjectedFeedback(feedback, channel)[i], c.regen[1], c.regen[2])
                   + input_sample])

GalacticCrossFade_WetOnly(wet_sample, dry, c) == [v |-> wet_sample, tiny |-> <<>>]

\* if wet < 1.0 { input_sample = input_sample * wet + dry_sample * (1.0 - wet) }
GalacticCrossFade(wet_sample, dry, c) ==
    IF c.wet[1] < c.wet[2]
    THEN [ v    |-> Scale(wet_sample, c.wet[1], c.wet[2])
                      + Scale(dry.v, c.wet[2] - c.wet[1], c.wet[2]),
           tiny |-> IF dry.tiny = <<>> THEN <<>>
                    ELSE <<dry.tiny[1], dry.tiny[2], c.wet[2] - c.wet[1], c.wet[2]>> ]
    ELSE [v |-> wet_sample, tiny |-> <<>>]

\* 2_u64.pow(exp + 62): [ok, scale], scale the exponent of the power, or 0 for
\* the power wrapped to 0; where the build checks overflow, the power of more
\* than 63 panics
DitherScale(exp, overflow_checks) ==
    IF exp + 62 <= 63 THEN [ok |-> TRUE, scale |-> exp + 62]
    ELSE IF overflow_checks THEN [ok |-> FALSE, scale |-> 0]
    ELSE [ok |-> TRUE, scale |-> 0]

\* the dither on one channel: [ok, fpd, exp, sample], sample the output
\* [v, tiny, noise, scale] = v + tiny + (noise - 0x7fffffff) * 5.5e-36 * 2^scale
GalacticDither(mixed, fpd, overflow_checks) ==
    Bind(<<frexp(mixed.v, 0), xorshift(fpd)>>,
         LAMBDA d :
           Bind(DitherScale(d[1], overflow_checks),
                LAMBDA p :
                  [ ok |-> p.ok, fpd |-> d[2], exp |-> d[1],
                    sample |-> [v |-> mixed.v, tiny |-> mixed.tiny,
                                noise |-> d[2], scale |-> p.scale] ]))

\* one channel up to the feedback: [pre, blocks, filtered, written]
GalacticChannel(delays, detune_delay, iirA, dry, offset, feedback, channel, c) ==
    Bind(GalacticPre(detune_delay, iirA, dry, offset, c),
    LAMBDA pre : Bind(Block0Input(feedback, channel, pre[2], c),
    LAMBDA written : Bind(GalacticBlocks(delays, written),
    LAMBDA blocks : [pre |-> pre, blocks |-> blocks, written |-> written])))

\* one pass of the loop over the samples: [ok, g, out_l, out_r, dry_l, dry_r, at]
GalacticSample(g, input_sample_l, input_sample_r, c, overflow_checks) ==
    Bind(<<DrySample(input_sample_l, g.fpdL), DrySample(input_sample_r, g.fpdR)>>,
    LAMBDA dry :
    Bind(<<GalacticChannel(g.delays_left, g.detune_delay_left, g.iirAL, dry[1],
                           offsetML, g.feedback, "left", c),
           GalacticChannel(g.delays_right, g.detune_delay_right, g.iirAR, dry[2],
                           offsetMR, g.feedback, "right", c)>>,
    LAMBDA ch :
    Bind(<<GalacticLowpass(g.iirBL, Scale(SumSeq(ch[1].blocks.block_2), 1, 8), c.lowpass),
           GalacticLowpass(g.iirBR, Scale(SumSeq(ch[2].blocks.block_2), 1, 8), c.lowpass)>>,
    LAMBDA iirB :
    Bind(GalacticDither(GalacticCrossFade(iirB[1], dry[1], c), g.fpdL, overflow_checks),
    LAMBDA dl :
      IF ~dl.ok
      THEN [ok |-> FALSE, g |-> GalacticPanicked]
      ELSE
    Bind(GalacticDither(GalacticCrossFade(iirB[2], dry[2], c), g.fpdR, overflow_checks),
    LAMBDA dr :
      IF ~dr.ok
      THEN [ok |-> FALSE, g |-> GalacticPanicked]
      ELSE [ ok |-> TRUE,
             g  |-> [ state              |-> "built",
                      delays_left        |-> ch[1].blocks.delays,
                      delays_right       |-> ch[2].blocks.delays,
                      feedback           |-> <<Evaluated(DiffMix(ch[1].blocks.block_2)),
                                               Evaluated(DiffMix(ch[2].blocks.block_2))>>,
                      detune_delay_left  |-> ch[1].pre[1],
                      detune_delay_right |-> ch[2].pre[1],
                      fpdL |-> dl.fpd, fpdR |-> dr.fpd,
                      iirAL |-> ch[1].pre[2], iirAR |-> ch[2].pre[2],
                      iirBL |-> iirB[1], iirBR |-> iirB[2] ],
             out_l |-> dl.sample, out_r |-> dr.sample,
             dry_l |-> dry[1], dry_r |-> dry[2],
             at |-> [ filtered_l |-> ch[1].pre[2], filtered_r |-> ch[2].pre[2],
                      written_l |-> ch[1].written, written_r |-> ch[2].written,
                      block_2_l |-> ch[1].blocks.block_2,
                      block_2_r |-> ch[2].blocks.block_2,
                      exp_l |-> dl.exp, exp_r |-> dr.exp ] ])))))

\* the loop over the samples the four slices have in common, here samples lo
\* to hi of them, in order, the first half before the second:
\* [ok, g, out_l, out_r, dry_l, dry_r, trace]
RECURSIVE GalacticLoop(_, _, _, _, _, _, _)
GalacticLoop(g, left, right, c, overflow_checks, lo, hi) ==
    LET panic == [ok |-> FALSE, g |-> GalacticPanicked, out_l |-> <<>>, out_r |-> <<>>,
                  dry_l |-> <<>>, dry_r |-> <<>>, trace |-> <<>>]
    IN  IF lo > hi
        THEN [ok |-> TRUE, g |-> g, out_l |-> <<>>, out_r |-> <<>>,
              dry_l |-> <<>>, dry_r |-> <<>>, trace |-> <<>>]
        ELSE IF lo = hi
        THEN Bind(GalacticSample(g, left[lo], right[lo], c, overflow_checks),
             LAMBDA s :
               IF ~s.ok THEN panic
               ELSE [ok |-> TRUE, g |-> s.g, out_l |-> <<s.out_l>>, out_r |-> <<s.out_r>>,
                     dry_l |-> <<s.dry_l>>, dry_r |-> <<s.dry_r>>, trace |-> <<s.at>>])
        ELSE Bind(GalacticLoop(g, left, right, c, overflow_checks, lo, (lo + hi) \div 2),
             LAMBDA first :
               IF ~first.ok THEN panic
               ELSE Bind(GalacticLoop(first.g, left, right, c, overflow_checks,
                                      ((lo + hi) \div 2) + 1, hi),
                    LAMBDA rest :
                      IF ~rest.ok THEN panic
                      ELSE [ ok |-> TRUE, g |-> rest.g,
                             out_l |-> first.out_l \o rest.out_l,
                             out_r |-> first.out_r \o rest.out_r,
                             dry_l |-> first.dry_l \o rest.dry_l,
                             dry_r |-> first.dry_r \o rest.dry_r,
                             trace |-> first.trace \o rest.trace ]))

\* the lines of a channel with set_delay_length_fraction(size) on each
GalacticSized(delays, c) ==
    Evaluated([i \in 1..12 |-> set_delay_length_fraction(delays[i], c.size)])

\* process up to its return: [ok, g, out_l, out_r, dry_l, dry_r, trace, c].
\* controls holds the five control slices, out_len the lengths of the two
\* output slices.  An empty control slice panics at its [0].
GalacticRun(g, left, right, controls, out_len, sample_rate, overflow_checks) ==
    LET panic == [ok |-> FALSE, g |-> GalacticPanicked, out_l |-> <<>>, out_r |-> <<>>,
                  dry_l |-> <<>>, dry_r |-> <<>>, trace |-> <<>>, c |-> <<>>]
    IN  IF \E name \in DOMAIN controls : controls[name] = <<>>
        THEN panic
        ELSE Bind(GalacticControls(controls.size[1], controls.replace[1],
                                   controls.brightness[1], controls.detune[1],
                                   controls.mix[1], sample_rate),
             LAMBDA c :
               Bind([g EXCEPT !.delays_left = GalacticSized(g.delays_left, c),
                              !.delays_right = GalacticSized(g.delays_right, c)],
               LAMBDA sized :
                 Bind(GalacticLoop(sized, left, right, c, overflow_checks, 1,
                                   Min(Min(Len(left), Len(right)),
                                       Min(out_len[1], out_len[2]))),
                 LAMBDA r :
                   IF ~r.ok THEN panic
                   ELSE [ok |-> TRUE, g |-> r.g, out_l |-> r.out_l, out_r |-> r.out_r,
                         dry_l |-> r.dry_l, dry_r |-> r.dry_r, trace |-> r.trace,
                         c |-> c])))

GalacticProcess_FreesItself(g, left, right, controls, out_len, sample_rate, overflow_checks) ==
    Bind(GalacticRun(g, left, right, controls, out_len, sample_rate, overflow_checks),
         LAMBDA r : <<r, IF r.ok THEN "FreeSelf" ELSE "panic">>)

\* Galactic::process(left, right, size, replace, brightness, detune, mix,
\* left_out, right_out, sample_rate): <<what it did, what it returned>>
GalacticProcess(g, left, right, controls, out_len, sample_rate, overflow_checks) ==
    Bind(GalacticRun(g, left, right, controls, out_len, sample_rate, overflow_checks),
         LAMBDA r : <<r, IF r.ok THEN "Continue" ELSE "panic">>)

----------------------------------------------------------------------------
(* The host of Galactic: builds it, initialises it once, and calls process   *)
(* on blocks, with the controls it settled on at the start.                  *)

\* fpdL and fpdR as drawn in new(), from 16386..u32::MAX
GalacticSeeds == {<<0, 16386>>, <<43690, 21845>>}

\* whether the build checks integer overflow
OverflowChecks == BOOLEAN

GalacticSampleRates == {100}

GalacticBlockSizes == {64}

\* the values of a control
GalacticSizes == {<<1, 1>>}

GalacticReplaces == {<<0, 1>>, <<1, 1>>}

GalacticBrightnesses == {<<1, 5>>}

GalacticMixes == {<<0, 1>>, <<1, 2>>, <<1, 1>>}

\* the left and right sample a block fed holds: silence, 1.0 and 0.5, 4.0
\* and silence
GalacticInputs == {<<0, 0>>, <<Unity, Unity \div 2>>, <<4 * Unity, 0>>}

GalacticNoCall ==
    [ret |-> "none", left |-> <<>>, right |-> <<>>, out_l |-> <<>>, out_r |-> <<>>,
     dry_l |-> <<>>, dry_r |-> <<>>, trace |-> <<>>, c |-> <<>>, fpd |-> <<>>,
     carry |-> [block_2_l |-> ZeroFrame(4), block_2_r |-> ZeroFrame(4)]]

\* the host before it has built its engine
GalacticHost ==
    [engine |-> [state |-> "absent"], initialised |-> FALSE, sample_rate |-> 0,
     block_size |-> 0, calls |-> 0, mismatched |-> FALSE, overflow_checks |-> FALSE,
     controls |-> <<>>, last |-> GalacticNoCall]

\* Galactic::new(); the host settles its controls, detune at 0
GalacticNew ==
    /\ ga.engine.state = "absent"
    /\ \E fpd \in GalacticSeeds, checks \in OverflowChecks, size \in GalacticSizes,
          replace \in GalacticReplaces, brightness \in GalacticBrightnesses,
          mix \in GalacticMixes :
         ga' = [ga EXCEPT !.engine = GalacticBuilt(fpd, xorshift(fpd)),
                          !.overflow_checks = checks,
                          !.controls = [size |-> size, replace |-> replace,
                                        brightness |-> brightness, detune |-> <<0, 1>>,
                                        mix |-> mix]]
    /\ UNCHANGED exceptGalactic

\* Galactic::init(sample_rate)
GalacticEngineInit ==
    /\ ga.engine.state = "built"
    /\ ~ga.initialised
    /\ \E sample_rate \in GalacticSampleRates, block_size \in GalacticBlockSizes :
         ga' = [ga EXCEPT !.engine = GalacticInitValue(ga.engine, sample_rate),
                          !.initialised = TRUE,
                          !.sample_rate = sample_rate,
                          !.block_size = block_size]
    /\ UNCHANGED exceptGalactic

\* one call of process by the host: the engine and the record of the call.
\* len gives the length of each slice.
GalacticCall(input, len) ==
    Bind(GalacticProcess(ga.engine, Repeat(input[1], len.left), Repeat(input[2], len.right),
                         [name \in DOMAIN ga.controls |->
                            Repeat(ga.controls[name], len[name])],
                         <<len.left_out, len.right_out>>,
                         ga.sample_rate, ga.overflow_checks),
         LAMBDA p :
           [ga EXCEPT !.engine = p[1].g,
                      !.calls = @ + 1,
                      !.last = [ret |-> p[2],
                                left |-> Repeat(input[1], len.left),
                                right |-> Repeat(input[2], len.right),
                                out_l |-> p[1].out_l, out_r |-> p[1].out_r,
                                dry_l |-> p[1].dry_l, dry_r |-> p[1].dry_r,
                                trace |-> p[1].trace, c |-> p[1].c,
                                fpd |-> <<ga.engine.fpdL, ga.engine.fpdR>>,
                                carry |-> IF ga.last.trace = <<>> THEN ga.last.carry
                                          ELSE [block_2_l |-> ga.last.trace[Len(ga.last.trace)].block_2_l,
                                                block_2_r |-> ga.last.trace[Len(ga.last.trace)].block_2_r]]])

GalacticSlices ==
    {"left", "right", "left_out", "right_out", "size", "replace", "brightness", "detune", "mix"}

\* process calls of one run
MaxBlocks == 3

\* process on slices that all have the block size: a loud or a silent block
\* first, silent blocks after it
GalacticProcessBlock ==
    /\ ga.engine.state = "built"
    /\ ga.initialised
    /\ ~ga.mismatched
    /\ ga.calls < MaxBlocks
    /\ \E input \in GalacticInputs :
         /\ input # <<0, 0>> => ga.calls = 0
         /\ ga' = GalacticCall(input, [slice \in GalacticSlices |-> ga.block_size])
    /\ UNCHANGED exceptGalactic

\* process with an input or an output slice a sample short of the block size,
\* or with a control slice empty, as the host's only call
GalacticProcessMismatched ==
    /\ ga.engine.state = "built"
    /\ ga.initialised
    /\ ~ga.mismatched
    /\ ga.calls = 0
    /\ \E which \in {"left", "right_out", "mix"} :
         /\ ga' = [GalacticCall(<<Unity, Unity \div 2>>,
                                [slice \in GalacticSlices |->
                                   IF slice # which THEN ga.block_size
                                   ELSE IF slice = "mix" THEN 0
                                   ELSE ga.block_size - 1])
                     EXCEPT !.mismatched = TRUE]
    /\ UNCHANGED exceptGalactic

----------------------------------------------------------------------------
(* A host that builds one engine: the LuffVerb of luffverb.rs, in a build    *)
(* with DIFFUSERS anywhere from one up to the value in the source, the       *)
(* LuffVerb of lib.rs, or Galactic.                                          *)

\* DIFFUSERS of the builds of luffverb.rs
StageCounts == 1..DIFFUSERS

\* tail_delay and feedback of the engines of luffverb.rs built
StageTailDelays == {128}

StageGains == {<<1, 2>>}

EnginesInit ==
    /\ lv = LuffHost
    /\ ll = LibHost
    /\ ga = GalacticHost
    /\ MatrixIdle /\ TailIdle /\ DiffuserIdle

NoEngine ==
    /\ lv.engine.state = "absent"
    /\ ll.engine.state = "absent"
    /\ ga.engine.state = "absent"

\* LuffVerb::new(tail_delay, feedback) of luffverb.rs
EnginesLuffNew ==
    /\ NoEngine
    /\ \E stages \in StageCounts, tail_delay \in StageTailDelays,
          feedback \in StageGains, coeff \in LpfCoefficients :
         \E e \in LuffVerbNewOf(stages, tail_delay, feedback) :
            lv' = [lv EXCEPT !.engine = e, !.coeff = coeff]
    /\ UNCHANGED exceptLuffVerb

\* LuffVerb::new(tail_delay) of lib.rs
EnginesLibNew == NoEngine /\ LibNew

\* Galactic::new()
EnginesGalacticNew == NoEngine /\ GalacticNew

EnginesNext ==
    \/ EnginesLuffNew \/ LuffInit \/ LuffProcess \/ LuffProcessMismatched
    \/ EnginesLibNew \/ LibEngineInit \/ LibProcess \/ LibProcessMismatched
    \/ EnginesGalacticNew \/ GalacticEngineInit \/ GalacticProcessBlock
    \/ GalacticProcessMismatched

SpecEngines == EnginesInit /\ [][EnginesNext]_vars

----------------------------------------------------------------------------
(* The Diffuser's caller: builds a Diffuser, feeds it blocks, then feeds     *)
(* silence until the delay lines are empty again.                            *)

\* CHANNELS of the Diffusers built
DiffuserChannelCounts == {1, 2, 3, 4}

\* max_delay_length_in_samples of the Diffusers built
DelayRanges == {0, 4, 8, 10}

\* block sizes fed
DiffuserBlockSizes == {1, 2}

\* blocks fed before the silence
MaxFeed == 1

\* the frames fed: silence, one value on all channels, one value on the last
FeedFrames(channels) ==
    { ZeroFrame(channels),
      [c \in 1..channels |-> 4],
      [c \in 1..channels |-> IF c = channels THEN -4 ELSE 0] }

\* a block of frames as one vector per channel
ChannelMajor(frames, channels) ==
    [channel \in 1..channels |-> [f \in 1..Len(frames) |-> frames[f][channel]]]

\* a block of one vector per channel as frames
FrameMajor(block) ==
    [f \in 1..Len(block[1]) |-> [channel \in 1..Len(block) |-> block[channel][f]]]

BlockEnergy(frames) == SumSeq([f \in 1..Len(frames) |-> Energy(frames[f])])

\* every delay line holds silence
Drained == \A channel \in 1..df.channels :
              \A i \in 1..Len(df.delays[channel].buffer) : df.delays[channel].buffer[i] = 0

\* the Diffuser's process_block on a block of frames: [ok, diffuser, frames put out]
DiffuserCall(d, frames) ==
    IF d.file = "lib.rs"
    THEN LET r == LibDiffuserProcessBlock(d, frames, [f \in 1..Len(frames) |-> ZeroFrame(d.channels)])
         IN  [ok |-> r.ok, diffuser |-> r.diffuser, frames |-> r.output]
    ELSE LET r == DiffuserProcessBlock(d, ChannelMajor(frames, d.channels),
                                       ChannelMajor([f \in 1..Len(frames) |-> ZeroFrame(d.channels)],
                                                    d.channels))
         IN  [ok |-> r.ok, diffuser |-> r.diffuser, frames |-> FrameMajor(r.output)]

DiffuserInit ==
    /\ df = [state |-> "absent"]
    /\ dh = [mode |-> "feed", file |-> "none", channels |-> 0, max_delay |-> 0,
             drawn |-> <<>>, fed |-> 0, frames |-> 0, energy_in |-> 0, energy_out |-> 0]
    /\ MatrixIdle /\ TailIdle /\ LuffVerbIdle /\ LibIdle /\ GalacticIdle

\* Diffuser::<channels>::new(max_delay) of luffverb.rs; the caller notes the
\* lengths rng.gen_range drew (none when the first range is empty)
DiffuserBuild ==
    /\ df.state = "absent"
    /\ \E channels \in DiffuserChannelCounts, max_delay \in DelayRanges :
         LET strata == Strata(channels, max_delay)
             draws  == StratifiedDraws(strata[1], strata[2], channels)
             called == [dh EXCEPT !.file = "luffverb.rs", !.channels = channels,
                                  !.max_delay = max_delay]
         IN  IF draws = {}
             THEN /\ df' \in DiffuserNew(channels, max_delay)
                  /\ dh' = called
             ELSE \E p \in Shuffles(Polarity(channels)), t \in draws :
                     /\ df' = DiffuserBuilt(channels, max_delay, p, t)
                     /\ dh' = [called EXCEPT !.drawn = t]
    /\ UNCHANGED exceptDiffuser

\* Diffuser::<channels>::new(max_delay) of lib.rs
LibDiffuserBuild ==
    /\ df.state = "absent"
    /\ \E channels \in DiffuserChannelCounts, max_delay \in DelayRanges :
         LET strata == LibStrata(channels, max_delay)
             draws  == StratifiedDraws(strata[1], strata[2], channels)
             called == [dh EXCEPT !.file = "lib.rs", !.channels = channels,
                                  !.max_delay = max_delay]
         IN  IF draws = {}
             THEN /\ df' \in LibDiffuserNew(channels, max_delay)
                  /\ dh' = called
             ELSE \E p \in Shuffles(LibPolarity(channels)), t \in draws :
                     /\ df' = LibDiffuserBuilt(channels, max_delay, p, t)
                     /\ dh' = [called EXCEPT !.drawn = t]
    /\ UNCHANGED exceptDiffuser

\* process_block on a block of one or two frames
DiffuserFeed ==
    /\ df.state = "built"
    /\ dh.mode = "feed"
    /\ dh.fed < MaxFeed
    /\ \E block_size \in DiffuserBlockSizes :
         \E frames \in [1..block_size -> FeedFrames(df.channels)] :
            LET r == DiffuserCall(df, frames)
            IN  /\ df' = r.diffuser
                /\ dh' = [dh EXCEPT !.fed = @ + 1,
                                    !.frames = @ + block_size,
                                    !.energy_in = @ + BlockEnergy(frames),
                                    !.energy_out = @ + BlockEnergy(r.frames)]
    /\ UNCHANGED exceptDiffuser

\* process_block on one silent frame, while a delay line still holds signal
DiffuserDrain ==
    /\ df.state = "built"
    /\ ~Drained
    /\ LET r == DiffuserCall(df, <<ZeroFrame(df.channels)>>)
       IN  /\ df' = r.diffuser
           /\ dh' = [dh EXCEPT !.mode = "drain",
                               !.frames = @ + 1,
                               !.energy_out = @ + BlockEnergy(r.frames)]
    /\ UNCHANGED exceptDiffuser

DiffuserNext == DiffuserBuild \/ LibDiffuserBuild \/ DiffuserFeed \/ DiffuserDrain

SpecDiffuser == DiffuserInit /\ [][DiffuserNext]_vars

----------------------------------------------------------------------------
(* The Tail's caller (as tests::tail_delay): builds a Tail, initialises it   *)
(* and calls process_block with blocks of the initialised size.              *)

\* feedback gains num/den passed to Tail::new: all exact floats
Gains == {<<0, 1>>, <<1, 2>>, <<3, 4>>, <<1, 1>>, <<5, 4>>}

GainBelowOne(gain) == gain[1] < gain[2]

\* CHANNELS of the Tails built
TailChannelCounts == {1}

\* sample values of the blocks fed to a Tail
TailSamples == {0, 4}

\* the longest delay buffer, in frames
MaxTailDelay == 4

\* the largest block size
MaxBlockSize == 3

\* frames fed while the caller records input and output
MaxLog == 8

\* non-silent blocks fed before the silence
MaxFill == 2

\* silent blocks counted (the count saturates)
MaxQuiet == 6

Blocks(channels, block_size) == [1..block_size -> [1..channels -> TailSamples]]

\* the sum of squares of everything the delay buffer holds
TailEnergy == SumSeq([i \in 1..Len(tl.delay_buffer) |-> Energy(tl.delay_buffer[i])])

\* Tail::<channels>::new(delay_length_in_samples, feedback)
TailNew ==
    /\ tl.state = "absent"
    /\ th.mode \in {"log", "decay"}
    /\ \E channels \in TailChannelCounts, len \in 0..MaxTailDelay, gain \in Gains :
         /\ th.mode = "decay" => GainBelowOne(gain)
         /\ tl' = TailNewValue(channels, len, gain)
         /\ th' = [th EXCEPT !.feedback = gain]
    /\ UNCHANGED exceptTail

\* tail.init(block_size)
TailInit ==
    /\ tl.state = "new"
    /\ \E block_size \in 0..MaxBlockSize :
         /\ tl' = TailInitValue(tl, block_size)
         /\ th' = [th EXCEPT !.block_size = block_size]
    /\ UNCHANGED exceptTail

\* tail.process_block(&input, &mut output), the caller keeping what it fed and got
TailProcess ==
    /\ tl.state = "ready"
    /\ th.mode = "log"
    /\ Len(th.output) < MaxLog
    /\ \E input \in Blocks(tl.channels, th.block_size) :
         LET r == TailProcessBlock(tl, input, th.block_size)
         IN  /\ tl' = r.tail
             /\ th' = IF r.ok
                      THEN [th EXCEPT !.input = @ \o input, !.output = @ \o r.output]
                      ELSE th
    /\ UNCHANGED exceptTail

\* process_block with a block that is not silent, before the silence
TailFill ==
    /\ tl.state = "ready"
    /\ th.mode = "decay"
    /\ ~th.silent
    /\ th.fills < MaxFill
    /\ \E input \in Blocks(tl.channels, th.block_size) :
         LET r == TailProcessBlock(tl, input, th.block_size)
         IN  /\ tl' = r.tail
             /\ th' = [th EXCEPT !.fills = @ + 1]
    /\ UNCHANGED exceptTail

\* process_block with an all-zero block
TailSilence ==
    /\ tl.state = "ready"
    /\ th.mode = "decay"
    /\ LET r == TailProcessBlock(tl, [f \in 1..th.block_size |-> ZeroFrame(tl.channels)],
                                 th.block_size)
       IN  /\ tl' = r.tail
           /\ th' = IF r.ok
                    THEN [th EXCEPT !.silent = TRUE, !.quiet = Min(@ + 1, MaxQuiet)]
                    ELSE th
    /\ UNCHANGED exceptTail

TailInitLog ==
    /\ tl = TailIdleValue /\ th = CallerValue("log")
    /\ MatrixIdle /\ DiffuserIdle /\ LuffVerbIdle /\ LibIdle /\ GalacticIdle

TailInitDecay ==
    /\ tl = TailIdleValue /\ th = CallerValue("decay")
    /\ MatrixIdle /\ DiffuserIdle /\ LuffVerbIdle /\ LibIdle /\ GalacticIdle

TailNext == TailNew \/ TailInit \/ TailProcess

TailDecayNext == TailNew \/ TailInit \/ TailFill \/ TailSilence

SpecTail == TailInitLog /\ [][TailNext]_vars

\* the host calls process block after block for the life of the stream
SpecTailDecay == TailInitDecay /\ [][TailDecayNext]_vars /\ WF_vars(TailSilence)

----------------------------------------------------------------------------
(* The transforms' harness: a frame is drawn, then one transform is applied   *)
(* to it up to MaxApply times.                                                *)

\* frame sizes: the powers of two the transforms are built for, and sizes
\* that are no power of two
FrameSizes == {1, 2, 3, 4, 6, 8, 16}

\* sample values of the drawn frames: multiples of 16 ulp, so that the
\* scalings by 2/N of the sizes above that are powers of two are exact
Amplitudes == {-16, 32}

\* a drawn frame has at most this many non-zero samples
MaxNonZero == 2

\* a transform is applied at most this many times in a row
MaxApply == 2

Frames(N) ==
    UNION { { [i \in 1..N |-> IF i \in P THEN f[i] ELSE 0] :
                f \in [P -> Amplitudes \cup {0}] } :
            P \in {Q \in SUBSET (1..N) : Cardinality(Q) = Min(MaxNonZero, N)} }

MatrixInit ==
    /\ \E N \in FrameSizes : \E x \in Frames(N) :
          mx = [N |-> N, x |-> x, y |-> x, op |-> "none", applied |-> 0]
    /\ TailIdle /\ DiffuserIdle /\ LuffVerbIdle /\ LibIdle /\ GalacticIdle

\* frame = hadamard_recursive(frame)
ApplyHadamardRecursive ==
    /\ mx.op \in {"none", "hadamard_recursive"}
    /\ mx.applied < MaxApply
    /\ mx' = [mx EXCEPT !.y = hadamard_recursive(mx.y),
                        !.op = "hadamard_recursive",
                        !.applied = @ + 1]
    /\ UNCHANGED exceptMatrix

\* frame = hadamard::<N>() * frame, as Diffuser::process_block (lib.rs) does
ApplyHadamardMatrix ==
    /\ mx.op \in {"none", "hadamard"}
    /\ mx.applied < MaxApply
    /\ hadamard(mx.N)[1]
    /\ mx' = [mx EXCEPT !.y = MatVec(hadamard(mx.N)[2], mx.y),
                        !.op = "hadamard",
                        !.applied = @ + 1]
    /\ UNCHANGED exceptMatrix

\* Householder::<N>::in_place(&mut frame)
ApplyHouseholder ==
    /\ mx.op \in {"none", "householder"}
    /\ mx.applied < MaxApply
    /\ mx' = [mx EXCEPT !.y = in_place(mx.y),
                        !.op = "householder",
                        !.applied = @ + 1]
    /\ UNCHANGED exceptMatrix

MatrixNext == ApplyHadamardRecursive \/ ApplyHadamardMatrix \/ ApplyHouseholder

SpecMatrix == MatrixInit /\ [][MatrixNext]_vars

----------------------------------------------------------------------------
\* C3: for N in {1, 2, 4, 16} and every frame x of N samples, two applications
\* of the Hadamard transform (hadamard_recursive, or the product with the
\* matrix of hadamard::<N>()) give N * x, element by element.
C3_HadamardTwiceScalesByN ==
    (/\ mx.N \in {1, 2, 4, 16}
     /\ mx.op \in {"hadamard_recursive", "hadamard"}
     /\ mx.applied = 2)
    => mx.y = [i \in 1..mx.N |-> mx.N * mx.x[i]]

\* a frame of 16 samples with two non-zero samples, transformed twice by each form
C3_Witness ==
    /\ mx.N = 16
    /\ mx.op = "hadamard_recursive"
    /\ mx.applied = 2
    /\ Cardinality({i \in 1..16 : mx.x[i] # 0}) = 2
    /\ mx.y = [i \in 1..16 |-> 16 * mx.x[i]]

----------------------------------------------------------------------------
\* the caller fed a unit impulse: a non-zero sample at index 0, then zeros
ImpulseFed ==
    /\ Len(th.input) >= 1
    /\ th.input[1][1] # 0
    /\ \A n \in 2..Len(th.input) : th.input[n] = ZeroFrame(tl.channels)
    /\ \A c \in 2..tl.channels : th.input[1][c] = 0

\* C1: a Tail of delay length L and feedback gain 1.0, initialised with a block
\* size B < L and fed a unit impulse at sample 0, puts out 0 at every sample
\* index below L and the impulse's amplitude at index L, also when index L lies
\* in a block that wraps around the buffer's end.
C1_ImpulseReturnsAtDelay ==
    (/\ tl.state = "ready"
     /\ tl.feedback_gain = <<1, 1>>
     /\ th.block_size < Len(tl.delay_buffer)
     /\ ImpulseFed)
    => \A n \in 1..Len(th.output) :
          /\ n - 1 < Len(tl.delay_buffer) => th.output[n] = ZeroFrame(tl.channels)
          /\ n - 1 = Len(tl.delay_buffer) => th.output[n] = th.input[1]

\* the impulse has come back at index L = 3 in the second frame of a block of
\* two read in two parts: frames 2..3 of the log hold buffer slots 2 and 0
C1_Witness ==
    /\ tl.state = "ready"
    /\ tl.feedback_gain = <<1, 1>>
    /\ Len(tl.delay_buffer) = 3
    /\ th.block_size = 2
    /\ ImpulseFed
    /\ Len(th.output) = 4
    /\ th.output[4] = th.input[1]
    /\ th.output[3] = ZeroFrame(tl.channels)

----------------------------------------------------------------------------
C8_NoGainOfOneOrMore ==
    tl.state \in {"new", "ready"} => GainBelowOne(tl.feedback_gain)

\* C8 as amended: Tail::new accepts every feedback gain, those of 1 or more
\* included, and stores it unchanged (the gain is a caller's duty, not guarded
\* by the constructor); the Tail built is then processed with that gain.
C8_GainStoredUnchecked ==
    tl.state # "absent" =>
        /\ tl.feedback_gain = th.feedback
        /\ tl.state = "panicked" => th.block_size >= Len(tl.delay_buffer)

\* a Tail built with gain 5/4 has been processed: the impulse fed came back
\* amplified
C8_Witness ==
    /\ tl.state = "ready"
    /\ tl.feedback_gain = <<5, 4>>
    /\ Len(tl.delay_buffer) = 2
    /\ Len(th.output) = 5
    /\ th.input[1] = <<4>>
    /\ th.output[3] = <<4>>
    /\ th.output[5] = <<5>>

----------------------------------------------------------------------------
\* C5: a Diffuser applies no net gain: once the delay lines have drained, the
\* sum of squares of all the frames a Diffuser has put out equals that of all
\* the frames fed to it.
C5_NoNetGain ==
    (df.state = "built" /\ Drained) => dh.energy_out = dh.energy_in

\* What the code does in the case of C5: once the delay lines have drained,
\* the sum of squares of all the frames a Diffuser of N channels (N a power of
\* two) has put out is N times that of all the frames fed to it, the Hadamard
\* mix not being normalised.
C5_GainOfN ==
    (df.state = "built" /\ IsPowerOfTwo(df.channels) /\ Drained)
    => dh.energy_out = df.channels * dh.energy_in

\* a Diffuser of four channels (luffverb.rs) was fed signal and has drained
C5_Witness ==
    /\ df.state = "built"
    /\ df.file = "luffverb.rs"
    /\ df.channels = 4
    /\ dh.mode = "drain"
    /\ Drained
    /\ dh.energy_in > 0
    /\ dh.energy_out = 4 * dh.energy_in

\* C9: no Diffuser whose channel count is not a power of two is built, and
\* none reaches process_block.
C9_PowerOfTwoChannels ==
    (df.state = "built" /\ dh.frames > 0) => BitAnd(df.channels, df.channels - 1) = 0

----------------------------------------------------------------------------
\* C2: for every frame f of a block, the sample LuffVerb::process of
\* luffverb.rs writes to output[f] is E * S_diff[f] + C * S_tail[f], with
\* S_diff[f] the sum over the channels of the last Diffuser's output,
\* E = 0.5, S_tail[f] the sum over the channels of the Tail's output and
\* C = 1/(CHANNELS * DIFFUSERS): the compensation scales the Tail sum only.
C2_CompensationOnTailOnly ==
    lv.last.ret = "Continue" =>
        \A f \in 1..Len(lv.last.output) :
            lv.last.output[f] =
                Scale(SumChannels(lv.last.diffused, f), 1, 2)
                + Scale(SumChannels(lv.last.tail_out, f), 1, CHANNELS * DIFFUSERS)

----------------------------------------------------------------------------
\* C7: after LuffVerb::init(B), on a fresh engine or after an earlier init,
\* every working buffer process touches (buffer0, buffer1 and the Tail's
\* process_temp_buffers) has the length B, and a process call on a block of
\* that length does not panic.
C7_InitSizesEveryBuffer ==
    /\ (ll.engine.state = "built" /\ ll.initialised) =>
          /\ Len(ll.engine.buffer0) = ll.block_size
          /\ Len(ll.engine.buffer1) = ll.block_size
          /\ Len(ll.engine.tail.process_temp_buffers) = ll.block_size
    /\ (ll.initialised /\ ~ll.mismatched) => ll.last.ret # "panic"

----------------------------------------------------------------------------
\* C10: a process call whose input, output and control slices differ in
\* length from one another or from the initialised block size is stopped at
\* entry: it never processes the common prefix and returns normally.
C10_MismatchStopsTheCall == lv.mismatched => lv.last.ret = "panic"

----------------------------------------------------------------------------
\* C11: no delay line is created with a length of 0: every length a
\* constructor draws and hands to StaticSampleDelay::new is at least 1.
C11_NoZeroLength == \A i \in 1..Len(dh.drawn) : dh.drawn[i] >= 1

----------------------------------------------------------------------------
\* C12 as claimed: the length drawn for channel i (counted from 0) of a
\* Diffuser of N channels built for the delay range R lies in
\* [R*i/N, R*(i+1)/N), and the lengths increase strictly with the channel.
C12_DrawnInStratum ==
    /\ \A i \in 1..Len(dh.drawn) :
          /\ dh.max_delay * (i - 1) <= dh.channels * dh.drawn[i]
          /\ dh.channels * dh.drawn[i] < dh.max_delay * i
    /\ \A i \in 1..Len(dh.drawn), j \in 1..Len(dh.drawn) :
          i < j => dh.drawn[i] < dh.drawn[j]

\* C12 as amended: with q the whole part of R/N, the length drawn for channel
\* i (counted from 0) lies in [q*i, q*(i+1)) in lib.rs and in [q*i + 1, q*(i+1))
\* in luffverb.rs; the lengths of distinct channels lie in disjoint intervals
\* and increase strictly with the channel.
C12_DrawnInWholeStratum ==
    LET q == IF dh.channels = 0 THEN 0 ELSE dh.max_delay \div dh.channels
    IN  /\ \A i \in 1..Len(dh.drawn) :
              /\ q * (i - 1) + (IF dh.file = "luffverb.rs" THEN 1 ELSE 0) <= dh.drawn[i]
              /\ dh.drawn[i] < q * i
        /\ \A i \in 1..Len(dh.drawn), j \in 1..Len(dh.drawn) :
              i < j => dh.drawn[i] < dh.drawn[j]

\* a Diffuser of four channels (luffverb.rs) built for a range of 10 samples,
\* which four does not divide: the lengths drawn are 1, 3, 5, 7, and 7 is
\* below 10*3/4
C12_Witness ==
    /\ df.state = "built"
    /\ dh.file = "luffverb.rs"
    /\ dh.channels = 4
    /\ dh.max_delay = 10
    /\ dh.drawn = <<1, 3, 5, 7>>
    /\ \A i \in 1..4 : Len(df.delays[i].buffer) = dh.drawn[i]

----------------------------------------------------------------------------
\* the entries of a polarity vector equal to sign
Signs(polarity, sign) == Cardinality({i \in 1..Len(polarity) : polarity[i] = sign})

\* C13 as claimed: the polarity vector of a Diffuser of N channels, N a power
\* of two, holds N/2 entries of +1 and N/2 entries of -1, and process_block
\* never changes it.
C13_HalfAndHalf ==
    /\ [](df.state = "built" /\ IsPowerOfTwo(df.channels) =>
             /\ 2 * Signs(df.flip_polarity, 1) = df.channels
             /\ 2 * Signs(df.flip_polarity, -1) = df.channels)
    /\ [][df.state = "built" /\ df'.state = "built" =>
             df'.flip_polarity = df.flip_polarity]_vars

\* C13 as amended: with h the whole part of N/2, the polarity vector holds h
\* entries of -1 and N - h entries of +1 in luffverb.rs, and h entries of +1
\* and N - h entries of -1 in lib.rs, whatever the shuffle: N/2 of each for an
\* even N, and a single entry (+1 in luffverb.rs, -1 in lib.rs) for N = 1.
\* process_block never changes the vector.
C13_PolaritySplit ==
    /\ [](df.state = "built" =>
             LET h == df.channels \div 2
             IN  IF df.file = "luffverb.rs"
                 THEN /\ Signs(df.flip_polarity, -1) = h
                      /\ Signs(df.flip_polarity, 1) = df.channels - h
                 ELSE /\ Signs(df.flip_polarity, 1) = h
                      /\ Signs(df.flip_polarity, -1) = df.channels - h)
    /\ [][df.state = "built" /\ df'.state = "built" =>
             df'.flip_polarity = df.flip_polarity]_vars

\* a Diffuser of one channel (lib.rs) has processed a block: its only polarity
\* is -1
C13_Witness ==
    /\ df.state = "built"
    /\ df.file = "lib.rs"
    /\ df.channels = 1
    /\ df.flip_polarity = <<-1>>
    /\ dh.frames > 0

----------------------------------------------------------------------------
\* C18: a Tail (lib.rs) of delay length L >= 1, initialised with a block size
\* B, 1 <= B <= L, completes every process_block call on blocks of B frames,
\* the first one included, and after each call buffer_read_index =
\* buffer_write_index < L.
C18_EveryCallCompletes ==
    (/\ tl.state \in {"ready", "panicked"}
     /\ 1 <= th.block_size
     /\ th.block_size <= Len(tl.delay_buffer))
    => /\ tl.state = "ready"
       /\ Len(th.output) > 0 =>
             /\ tl.buffer_read_index = tl.buffer_write_index
             /\ tl.buffer_read_index < Len(tl.delay_buffer)

----------------------------------------------------------------------------
\* the per-sample feedback delay of length L and gain g fed x: s[n] = x[n] +
\* g * y[n] with y[n] = s[n - L], and s[n] = 0 before the first sample
RECURSIVE FeedbackLoop(_, _, _, _)
FeedbackLoop(x, L, gain, s) ==
    IF Len(s) = Len(x) THEN s
    ELSE LET n == Len(s) + 1
             y == IF n <= L THEN ZeroFrame(Len(x[n])) ELSE s[n - L]
         IN  FeedbackLoop(x, L, gain,
                          Append(s, [c \in 1..Len(x[n]) |->
                                       x[n][c] + Scale(y[c], gain[1], gain[2])]))

\* its output y
FeedbackDelay(x, L, gain) ==
    LET s == FeedbackLoop(x, L, gain, <<>>)
    IN  [n \in 1..Len(x) |-> IF n <= L THEN ZeroFrame(Len(x[n])) ELSE s[n - L]]

\* C20: for a Tail (lib.rs) of delay length L and gain g processed in blocks
\* of B frames, 1 <= B < L, the outputs of the calls so far, end to end, are
\* the output of the per-sample feedback delay fed the same input.
C20_BlocksAsPerSample ==
    (/\ tl.state = "ready"
     /\ 1 <= th.block_size
     /\ th.block_size < Len(tl.delay_buffer))
    => th.output = FeedbackDelay(th.input, Len(tl.delay_buffer), tl.feedback_gain)

\* four blocks of two frames through a Tail of three frames at gain 1/2: the
\* first sample has come back at index 3 and, halved and added to the sample
\* fed then, at index 6, in a block read and written in two parts
C20_Witness ==
    /\ tl.state = "ready"
    /\ tl.feedback_gain = <<1, 2>>
    /\ Len(tl.delay_buffer) = 3
    /\ th.block_size = 2
    /\ Len(th.output) = 8
    /\ th.input[1] = <<4>>
    /\ th.input[4] = <<4>>
    /\ th.output[4] = <<4>>
    /\ th.output[7] = <<6>>

----------------------------------------------------------------------------
(* C16: the two working buffers along the Diffuser stages                    *)

\* stage k, from the second on, was handed as input the buffer stage k-1 was
\* handed as output, holding the block stage k-1 left; no stage was handed
\* one buffer as both
StagesChained(stages) ==
    /\ \A k \in 2..Len(stages) :
          /\ stages[k].read = stages[k - 1].wrote
          /\ stages[k].input = stages[k - 1].output
    /\ \A k \in 1..Len(stages) : stages[k].read # stages[k].wrote

\* the last stage's output is the block in the buffer named by use
LastStageFeeds(stages, use) ==
    /\ use.buf = stages[Len(stages)].wrote
    /\ use.block = stages[Len(stages)].output

\* C16: in a call of LuffVerb::process of luffverb.rs that returns, whatever
\* the number of Diffusers, the first Diffuser reads the filtered input on
\* every channel, each later Diffuser reads the buffer and the block its
\* predecessor wrote, no Diffuser reads the buffer it writes, the early
\* reflections are summed from and the Tail reads the last Diffuser's output,
\* and the Tail writes the other buffer.  In a call of LuffVerb::process of
\* lib.rs that gets through the Diffusers, the first reads the input sample of
\* each frame on every channel, each later one reads what its predecessor
\* wrote, and the Tail is handed the last one's output and the other buffer.
C16_StagesAlternateBuffers ==
    /\ lv.last.ret = "Continue" =>
          LET w == lv.last.wiring
          IN  /\ Len(w.stages) = Len(lv.engine.diffusers)
              /\ w.stages[1].read = "buffer0"
              /\ w.stages[1].input = [channel \in 1..CHANNELS |-> w.filtered]
              /\ StagesChained(w.stages)
              /\ LastStageFeeds(w.stages, w.early)
              /\ LastStageFeeds(w.stages, w.tail_in)
              /\ w.tail_out.buf # w.tail_in.buf
              /\ w.tail_out.block = lv.last.tail_out
    /\ ll.last.wiring.stages # <<>> =>
          LET w == ll.last.wiring
          IN  /\ Len(w.stages) = LIB_DIFFUSERS
              /\ \A f \in 1..Min(Len(ll.last.input), Len(w.stages[1].input)) :
                    w.stages[1].input[f] = [channel \in 1..CHANNELS |-> ll.last.input[f]]
              /\ \A k \in 2..Len(w.stages) : w.stages[k].input = w.stages[k - 1].output
              /\ \A k \in 1..Len(w.stages) : w.stages[k].read # w.stages[k].wrote
              /\ w.tail_in.block = w.stages[Len(w.stages)].output
              /\ w.tail_out.buf # w.tail_in.buf

\* a build with three Diffusers has passed a loud block through them: the
\* third read buffer0 and wrote buffer1, which the Tail then read
C16_Witness ==
    /\ lv.last.ret = "Continue"
    /\ Len(lv.last.wiring.stages) = 3
    /\ lv.last.input # <<>> /\ lv.last.input[1] = 64
    /\ lv.last.wiring.stages[3].read = "buffer0"
    /\ lv.last.wiring.stages[3].wrote = "buffer1"
    /\ lv.last.wiring.stages[3].output # lv.last.wiring.stages[3].input
    /\ lv.last.wiring.tail_in.buf = "buffer1"
    /\ lv.last.wiring.tail_out.buf = "buffer0"

----------------------------------------------------------------------------
(* C14: Galactic with mix = 0                                                *)

\* the dither added to an output sample is zero: the power wrapped to 0, or
\* the generator stands at 0x7fffffff
NoDither(out) == out.scale = 0 \/ out.noise = <<32767, 65535>>

\* C14 as stated: in a call of Galactic::process with mix = 0, every output
\* sample equals the dry sample of its channel.
C14_OutputIsDry ==
    (ga.last.ret = "Continue" /\ ga.last.c.wet[1] = 0) =>
        \A n \in 1..Len(ga.last.out_l) :
            /\ ga.last.out_l[n].v = ga.last.dry_l[n].v
            /\ ga.last.out_l[n].tiny = ga.last.dry_l[n].tiny
            /\ NoDither(ga.last.out_l[n])
            /\ ga.last.out_r[n].v = ga.last.dry_r[n].v
            /\ ga.last.out_r[n].tiny = ga.last.dry_r[n].tiny
            /\ NoDither(ga.last.out_r[n])

\* the output samples of one channel are the dry samples with the dither on
\* them: the generator one step on at each sample from where it stood before
\* the call, the scale that of the dry sample's exponent
DryWithDither(out, dry, fpd) ==
    \A n \in 1..Len(out) :
        /\ out[n].v = dry[n].v
        /\ out[n].tiny = dry[n].tiny
        /\ out[n].noise = xorshift(IF n = 1 THEN fpd ELSE out[n - 1].noise)
        /\ out[n].scale = IF frexp(dry[n].v, 0) <= 1 THEN frexp(dry[n].v, 0) + 62 ELSE 0

\* C14, amended: in a call of Galactic::process with mix = 0 that returns,
\* every output sample is the dry sample of its channel (the input sample, or
\* fpd * 1.18e-17 for an input below 1.18e-23 in magnitude) plus the dither
\* (fpd' - 0x7fffffff) * 5.5e-36 * 2^(exp + 62) of that sample, the dither
\* being 0 where the power wraps; the reverberated signal adds nothing.
C14_OutputIsDryPlusDither ==
    (ga.last.ret = "Continue" /\ ga.last.c.wet[1] = 0) =>
        /\ Len(ga.last.out_l) = Len(ga.last.trace)
        /\ Len(ga.last.out_r) = Len(ga.last.trace)
        /\ DryWithDither(ga.last.out_l, ga.last.dry_l, ga.last.fpd[1])
        /\ DryWithDither(ga.last.out_r, ga.last.dry_r, ga.last.fpd[2])

\* a silent block with mix = 0 while the reverberation of the loud first
\* block sounds: the last block of lines puts out a signal on the left, the
\* output is the substitute with a dither on it
C14_Witness ==
    /\ ga.last.ret = "Continue"
    /\ ga.last.c.wet[1] = 0
    /\ ga.calls >= 2
    /\ \E n \in 1..Len(ga.last.trace) :
          /\ Abs(SumSeq(ga.last.trace[n].block_2_l)) >= 16
          /\ ga.last.left[n] = 0
          /\ ga.last.out_l[n].v = 0
          /\ ga.last.out_l[n].tiny # <<>>
          /\ ~NoDither(ga.last.out_l[n])

----------------------------------------------------------------------------
(* C15: what process returns                                                 *)

\* C15: every call of process of the LuffVerb of luffverb.rs, of the LuffVerb
\* of lib.rs and of Galactic that returns, returns GenState::Continue,
\* whatever the input, the controls and the calls before it.
C15_ReturnsContinue ==
    /\ lv.last.ret \in {"none", "panic", "Continue"}
    /\ ll.last.ret \in {"none", "panic", "Continue"}
    /\ ga.last.ret \in {"none", "panic", "Continue"}

\* Galactic has returned from its third call, on silence after a loud block
C15_Witness ==
    /\ ga.calls >= 3
    /\ ga.last.ret = "Continue"
    /\ Len(ga.last.out_l) > 0
    /\ ga.last.left[1] = 0

----------------------------------------------------------------------------
(* C17: the feedback between the channels of Galactic                        *)

\* the last-block outputs of the sample before sample n of the last call
BeforeSample(n) ==
    IF n = 1 THEN ga.last.carry
    ELSE [block_2_l |-> ga.last.trace[n - 1].block_2_l,
          block_2_r |-> ga.last.trace[n - 1].block_2_r]

\* C17: at every sample, the value written into line i of block 0 of the
\* left channel is the filtered left input of that sample plus regen times
\* the difference mix of the right channel's last-block outputs of the sample
\* before (zeros before the first sample of all), and the right channel is
\* written with the mix of the left channel's in the same way.
C17_FeedbackCrossesChannels ==
    \A n \in 1..Len(ga.last.trace) : \A i \in 1..4 :
        /\ ga.last.trace[n].written_l[i] =
              ga.last.trace[n].filtered_l
                + Scale(DiffMix(BeforeSample(n).block_2_r)[i],
                        ga.last.c.regen[1], ga.last.c.regen[2])
        /\ ga.last.trace[n].written_r[i] =
              ga.last.trace[n].filtered_r
                + Scale(DiffMix(BeforeSample(n).block_2_l)[i],
                        ga.last.c.regen[1], ga.last.c.regen[2])

\* a sample at which the two channels' feedback, times regen, differ from
\* each other and from what the sample itself then gives, and the left
\* channel's line 0 of block 0 is written with input and feedback both
C17_Witness ==
    /\ ga.last.ret = "Continue"
    /\ \E n \in 2..Len(ga.last.trace) :
          LET regen == ga.last.c.regen
              own   == Scale(DiffMix(BeforeSample(n).block_2_l)[1], regen[1], regen[2])
              other == Scale(DiffMix(BeforeSample(n).block_2_r)[1], regen[1], regen[2])
              now   == Scale(DiffMix(ga.last.trace[n].block_2_r)[1], regen[1], regen[2])
          IN  /\ other # 0 /\ own # 0 /\ own # other /\ now # other
              /\ ga.last.trace[n].filtered_l # 0
              /\ ga.last.trace[n].written_l[1] = ga.last.trace[n].filtered_l + other

----------------------------------------------------------------------------
(* C19: the scale of the dither                                              *)

\* C19 as stated: the exponent frexp gives for the sample the dither is added
\* to is at most 1, so that 2_u64.pow(exp + 62) neither panics nor wraps,
\* whatever the input.
C19_DitherScaleFits ==
    /\ \A n \in 1..Len(ga.last.trace) :
          /\ ga.last.trace[n].exp_l + 62 <= 63
          /\ ga.last.trace[n].exp_r + 62 <= 63
    /\ (ga.last.ret = "panic") => ga.mismatched

====
